---- MODULE Spec2Model ----
(***************************************************************************)
(* PII detection and redaction engine of services/pii_detector.py          *)
(* (PIIDetector.detect_and_redact and its helpers), modelled as a state    *)
(* machine over one call.  Texts are strings; offsets are 0-based and      *)
(* spans are half-open <<start, end>>, as in Python's re module.           *)
(***************************************************************************)
EXTENDS Integers, Sequences, FiniteSets, TLC

(***************************************************************************)
(* Characters and character classes                                        *)
(***************************************************************************)
Digits == {"0", "1", "2", "3", "4", "5", "6", "7", "8", "9"}

LowerAZ ==
  {"a", "b", "c", "d", "e", "f", "g", "h", "i", "j", "k", "l", "m",
   "n", "o", "p", "q", "r", "s", "t", "u", "v", "w", "x", "y", "z"}

UpperAZ ==
  {"A", "B", "C", "D", "E", "F", "G", "H", "I", "J", "K", "L", "M",
   "N", "O", "P", "Q", "R", "S", "T", "U", "V", "W", "X", "Y", "Z"}

\* accented lower-case letters used by the patterns of the detector
Accented == {"á", "â", "ã", "ç", "é", "ê", "í", "ó", "ú"}

Spaces == {" ", "\t", "\n"}

\* str.isalnum()
AlnumChars == Digits \cup LowerAZ \cup UpperAZ \cup Accented

\* \w of the re module
WordChars == AlnumChars \cup {"_"}

\* str.lower() on one character
LowerOf ==
  [c \in UpperAZ |->
     CASE c = "A" -> "a" [] c = "B" -> "b" [] c = "C" -> "c" [] c = "D" -> "d"
       [] c = "E" -> "e" [] c = "F" -> "f" [] c = "G" -> "g" [] c = "H" -> "h"
       [] c = "I" -> "i" [] c = "J" -> "j" [] c = "K" -> "k" [] c = "L" -> "l"
       [] c = "M" -> "m" [] c = "N" -> "n" [] c = "O" -> "o" [] c = "P" -> "p"
       [] c = "Q" -> "q" [] c = "R" -> "r" [] c = "S" -> "s" [] c = "T" -> "t"
       [] c = "U" -> "u" [] c = "V" -> "v" [] c = "W" -> "w" [] c = "X" -> "x"
       [] c = "Y" -> "y" [] c = "Z" -> "z"]

\* the character of t at 0-based offset i
CharAt(t, i) == SubSeq(t, i + 1, i + 1)

\* t[a:b] of Python, for 0 <= a and b <= len(t)
Slice(t, a, b) == SubSeq(t, a + 1, b)

RECURSIVE LowerStr(_)
\* str.lower(), computed on the two halves of t
LowerStr(t) ==
  IF Len(t) = 0 THEN ""
  ELSE IF Len(t) = 1 THEN (IF t \in UpperAZ THEN LowerOf[t] ELSE t)
  ELSE LowerStr(Slice(t, 0, Len(t) \div 2)) \o LowerStr(Slice(t, Len(t) \div 2, Len(t)))

Max(a, b) == IF a >= b THEN a ELSE b
Min(a, b) == IF a <= b THEN a ELSE b

\* range(a, b)
Range(a, b) == {i \in a .. (b - 1) : TRUE}

(***************************************************************************)
(* Regular expressions of the re module.  A pattern is a tree of records.  *)
(* MatchSeq(items, t, p) is the backtracking matcher: it matches the items *)
(* one after the other from offset p and gives the offset where the match  *)
(* it reports ends, or -1.  The alternatives of an alternation are tried   *)
(* in order, an optional item is tried before it is skipped, and a         *)
(* quantified character class takes the longest run with which the rest    *)
(* of the pattern still matches.                                           *)
(***************************************************************************)
Lit(s)        == [t |-> "lit", s |-> s]
Set(S)        == [t |-> "set", s |-> S]
AnyChar       == [t |-> "any"]
WB            == [t |-> "wb"]
Cat(rs)       == [t |-> "cat", rs |-> rs]
Alt(rs)       == [t |-> "alt", rs |-> rs]
\* c{m,n} for a character class c (a Set or AnyChar)
Rep(c, m, n)  == [t |-> "rep", r |-> c, m |-> m, n |-> n]
\* r? for any pattern r
Opt(r)        == [t |-> "opt", r |-> r]
NotAhead(r)   == [t |-> "nla", r |-> r]
\* upper limit of the unbounded quantifiers: no text is longer than this
Inf           == 1000

MinOf(S) == CHOOSE x \in S : \A y \in S : x <= y
MaxOf(S) == CHOOSE x \in S : \A y \in S : x >= y

\* \b at offset p
WordBoundary(t, p) ==
  LET before == p > 0 /\ CharAt(t, p - 1) \in WordChars
      after  == p < Len(t) /\ CharAt(t, p) \in WordChars
  IN  before # after

\* does the character class c match the character ch
InClass(c, ch) == IF c.t = "any" THEN ch # "\n" ELSE ch \in c.s

\* the length of the longest run of at most cap characters of class c at p
RunLength(c, t, p, cap) ==
  LET lim == Min(Len(t) - p, cap)
      bad == {k \in 0 .. (lim - 1) : ~ InClass(c, CharAt(t, p + k))}
  IN  IF bad = {} THEN lim ELSE MinOf(bad)

RECURSIVE MatchSeq(_, _, _)
MatchSeq(items, t, p) ==
  IF items = <<>> THEN p
  ELSE
    LET r    == Head(items)
        rest == Tail(items)
    IN  CASE r.t = "cat" -> MatchSeq(r.rs \o rest, t, p)
          [] r.t = "wb"  -> IF WordBoundary(t, p) THEN MatchSeq(rest, t, p) ELSE -1
          [] r.t = "lit" ->
               IF p + Len(r.s) <= Len(t) /\ Slice(t, p, p + Len(r.s)) = r.s
               THEN MatchSeq(rest, t, p + Len(r.s)) ELSE -1
          [] r.t \in {"set", "any"} ->
               IF p < Len(t) /\ InClass(r, CharAt(t, p))
               THEN MatchSeq(rest, t, p + 1) ELSE -1
          [] r.t = "alt" ->
               LET res == [k \in 1 .. Len(r.rs) |-> MatchSeq(<<r.rs[k]>> \o rest, t, p)]
                   ok  == {k \in 1 .. Len(r.rs) : res[k] >= 0}
               IN  IF ok = {} THEN -1 ELSE res[MinOf(ok)]
          [] r.t = "opt" ->
               LET e == MatchSeq(<<r.r>> \o rest, t, p)
               IN  IF e >= 0 THEN e ELSE MatchSeq(rest, t, p)
          [] r.t = "rep" ->
               LET top == RunLength(r.r, t, p, r.n)
                   res == [k \in r.m .. top |-> MatchSeq(rest, t, p + k)]
                   ok  == {k \in r.m .. top : res[k] >= 0}
               IN  IF ok = {} THEN -1 ELSE res[MaxOf(ok)]
          [] r.t = "nla" ->
               IF MatchSeq(<<r.r>>, t, p) >= 0 THEN -1 ELSE MatchSeq(rest, t, p)

\* end of the match of r at p, or -1
MatchAt(r, t, p) == MatchSeq(<<r>>, t, p)

RECURSIVE Walk(_, _, _)
\* the matches a left-to-right scan from offset p reports, ends[q] being the
\* end of the match at q or -1: a scan resumes where the last match ended
Walk(ends, p, n) ==
  LET S == {q \in p .. n : ends[q] >= 0}
  IN  IF S = {} THEN <<>>
      ELSE LET q == MinOf(S)
           IN  <<(<<q, ends[q]>>)>> \o Walk(ends, IF ends[q] > q THEN ends[q] ELSE q + 1, n)

\* re.finditer(r, t): the non-overlapping matches as <<start, end>>
FindIter(r, t) == Walk([p \in 0 .. Len(t) |-> MatchAt(r, t, p)], 0, Len(t))

\* re.finditer under (?i) / re.IGNORECASE, for a pattern written in lower case
FindIterI(r, t) == FindIter(r, LowerStr(t))

\* re.search(r, t) is not None
Search(r, t) == \E p \in 0 .. Len(t) : MatchAt(r, t, p) >= 0

(***************************************************************************)
(* The patterns of the detector                                            *)
(***************************************************************************)
Digit     == Set(Digits)
DigitsN(n) == Rep(Digit, n, n)
Space     == Set(Spaces)
\* [íi], [çc], [ãa], ... of the patterns
OneOf(S)  == Set(S)

\* PIIDetector.PII_TYPES: the declared categories
PII_TYPES ==
  {"PERSON_NAME", "CPF", "CNPJ", "EMAIL", "PHONE", "FULL_ADDRESS", "CEP",
   "GENERAL_REGISTRY", "SENSITIVE_HEALTH", "SENSITIVE_MINOR",
   "SENSITIVE_SOCIAL", "SENSITIVE_RACE", "SENSITIVE_GENDER"}

\* CPF_CONTEXT_KEYWORDS, searched in the lower-cased context window
CPF_CONTEXT_KEYWORDS ==
  << Lit("cpf"),
     Cat(<<Lit("cadastro de pessoa f"), OneOf({"í", "i"}), Lit("sica")>>),
     Cat(<<Lit("inscri"), OneOf({"ç", "c"}), OneOf({"ã", "a"}), Lit("o")>>),
     Lit("inscrito no cpf"),
     Cat(<<Lit("cpf n"), OneOf({"ú", "u"}), Lit("mero")>>),
     Cat(<<Lit("cpf sob o n"), OneOf({"ú", "u"}), Lit("mero")>>),
     Lit("portador do cpf"),
     Lit("titular do cpf"),
     Lit("contribuinte"),
     Lit("documento cpf"),
     Lit("cadastro cpf") >>

\* formatted_pattern = r'\b\d{3}\.\d{3}\.\d{3}-\d{2}\b'
formatted_pattern ==
  Cat(<<WB, DigitsN(3), Lit("."), DigitsN(3), Lit("."), DigitsN(3), Lit("-"),
        DigitsN(2), WB>>)

\* loose_pattern = r'\b\d{11}\b'
loose_pattern == Cat(<<WB, DigitsN(11), WB>>)

Set19 == Set({"1", "2", "3", "4", "5", "6", "7", "8", "9"})
Set25 == Set({"2", "3", "4", "5"})

\* the phone patterns with the bare eleven-digit one taking any prefix
phone_patterns_any_prefix ==
  << Cat(<<WB, Opt(Lit("(")), Set19, Set19, Opt(Lit(")")), Opt(Space),
           Alt(<<Cat(<<Lit("9"), Opt(Space), Digit>>), Cat(<<Set25, Digit>>)>>),
           DigitsN(2), Set({"-", "."} \cup Spaces), DigitsN(4), WB>>),
     Cat(<<WB, DigitsN(11), WB>>),
     Cat(<<WB, Set19, Set19, Set25, DigitsN(7), WB>>),
     Cat(<<Alt(<<Lit("tel"), Lit("cel"), Lit("zap"), Lit("whatsapp"),
                 Lit("contato"), Lit("fone")>>),
           Rep(Set({":", "."} \cup Spaces), 1, Inf), Rep(Digit, 8, 12), WB>>) >>

\* self.phone_patterns; the last one carries (?i) and is written in lower case
phone_patterns ==
  << Cat(<<WB, Opt(Lit("(")), Set19, Set19, Opt(Lit(")")), Opt(Space),
           Alt(<<Cat(<<Lit("9"), Opt(Space), Digit>>), Cat(<<Set25, Digit>>)>>),
           DigitsN(2), Set({"-", "."} \cup Spaces), DigitsN(4), WB>>),
     Cat(<<WB, Set19, Set19, Lit("9"), DigitsN(8), WB>>),
     Cat(<<WB, Set19, Set19, Set25, DigitsN(7), WB>>),
     Cat(<<Alt(<<Lit("tel"), Lit("cel"), Lit("zap"), Lit("whatsapp"),
                 Lit("contato"), Lit("fone")>>),
           Rep(Set({":", "."} \cup Spaces), 1, Inf), Rep(Digit, 8, 12), WB>>) >>

\* which of the phone patterns carry (?i)
phone_ignorecase == <<FALSE, FALSE, FALSE, TRUE>>

\* self.regex_patterns['CNPJ']
CNPJ_pattern ==
  Cat(<<WB, DigitsN(2), Lit("."), DigitsN(3), Lit("."), DigitsN(3), Lit("/"),
        DigitsN(4), Lit("-"), DigitsN(2), WB>>)

\* self.regex_patterns['EMAIL'] (case-sensitive)
EMAIL_pattern ==
  Cat(<<WB,
        Rep(Set(UpperAZ \cup LowerAZ \cup Digits \cup {".", "_", "%", "+", "-"}), 1, Inf),
        Lit("@"),
        NotAhead(Cat(<<Rep(AnyChar, 0, Inf), Lit(".gov.br")>>)),
        Rep(Set(UpperAZ \cup LowerAZ \cup Digits \cup {".", "-"}), 1, Inf),
        Lit("."),
        Rep(Set(UpperAZ \cup LowerAZ \cup {"|"}), 2, Inf),
        WB>>)

\* self.regex_patterns['CEP']
CEP_pattern ==
  Cat(<<WB, DigitsN(5), Rep(Space, 0, Inf), Lit("-"), Rep(Space, 0, Inf),
        DigitsN(3), WB>>)

\* self.regex_patterns['FULL_ADDRESS'], (?i): written in lower case
FULL_ADDRESS_pattern ==
  Cat(<<WB,
        Alt(<<Lit("rua"), Lit("av."), Lit("avenida"), Lit("q."), Lit("qd."),
              Lit("quadra"), Lit("sqn"), Lit("sqs"), Lit("shn"), Lit("shs"),
              Lit("cln"), Lit("crn"), Lit("sres"), Lit("shdf"), Lit("cond."),
              Lit("bloco"), Lit("bl."), Lit("lote"), Lit("lt."),
              Lit("conjunto"), Lit("conj."), Lit("arts"), Lit("al."),
              Lit("alameda")>>),
        Rep(Space, 1, Inf),
        Rep(Set(LowerAZ \cup Digits \cup Spaces \cup {",", ".", "-"}), 1, 100),
        Alt(<<Cat(<<WB, Rep(Digit, 1, Inf)>>), Cat(<<Set(LowerAZ), WB>>)>>)>>)

\* self.regex_patterns['GENERAL_REGISTRY'], (?i): written in lower case
GENERAL_REGISTRY_pattern ==
  Alt(<<Cat(<<Alt(<<Lit("rg"), Lit("cnh"),
                    Cat(<<Lit("matr"), OneOf({"í", "i"}), Lit("cula")>>),
                    Lit("nis"), Lit("pis"), Lit("pasep"), Lit("nit"),
                    Lit("ctps"), Lit("iptu"),
                    Cat(<<Lit("inscri"), OneOf({"ç", "c"}), OneOf({"ã", "a"}),
                          Lit("o")>>),
                    Cat(<<Lit("t"), OneOf({"í", "i"}), Lit("tulo"), Space,
                          Opt(Cat(<<Lit("de"), Space>>)), Lit("eleitor")>>)>>),
              NotAhead(Cat(<<Rep(Space, 0, Inf), Lit("cpf")>>)),
              Rep(Set({":", "."} \cup Spaces), 1, Inf),
              Rep(Digit, 1, 15),
              Rep(Set({"-"} \cup Digits), 0, Inf)>>),
        Cat(<<WB, DigitsN(3), Lit("."), DigitsN(5), Lit("."), DigitsN(2),
              Lit("-"), Digit, WB>>)>>)

\* self.sensitive_keywords, matched with re.IGNORECASE: written in lower case
SENSITIVE_TYPES ==
  <<"SENSITIVE_HEALTH", "SENSITIVE_MINOR", "SENSITIVE_SOCIAL",
    "SENSITIVE_RACE", "SENSITIVE_GENDER">>

DeDo == OneOf({"e", "o"})

sensitive_keywords ==
  [k \in {SENSITIVE_TYPES[i] : i \in 1 .. 5} |->
    CASE k = "SENSITIVE_HEALTH" ->
      << Cat(<<WB, Lit("diagn"), OneOf({"o", "ó"}), Lit("stico d"), DeDo, WB>>),
         Cat(<<WB, Lit("portador d"), DeDo, Lit(" "),
               Alt(<<Cat(<<Lit("c"), OneOf({"â", "a"}), Lit("ncer")>>),
                     Lit("hiv"), Lit("aids"),
                     Cat(<<Lit("defici"), OneOf({"ê", "e"}), Lit("ncia")>>)>>),
               WB>>),
         Cat(<<WB, Lit("minha doen"), OneOf({"ç", "c"}), Lit("a"), WB>>),
         Cat(<<WB, Lit("laudo m"), OneOf({"é", "e"}), Lit("dico"), WB>>),
         Cat(<<WB, Lit("cid"), Opt(Space), Set(LowerAZ), Digit>>),
         Cat(<<WB, Lit("transtorno "),
               Alt(<<Lit("mental"), Lit("bipolar"), Lit("ansiedade")>>), WB>>),
         Cat(<<WB, Lit("exame d"), DeDo, Lit(" "),
               Alt(<<Lit("sangue"), Lit("dna"),
                     Cat(<<Lit("bi"), OneOf({"ó", "o"}), Lit("psia")>>)>>),
               WB>>),
         Cat(<<WB, Lit("sofria de"), WB>>),
         Cat(<<WB, Lit("paciente com"), WB>>) >>
    [] k = "SENSITIVE_MINOR" ->
      << Cat(<<WB, Lit("menor de idade"), WB>>),
         Cat(<<WB, Lit("tutela d"), DeDo, Lit(" menor"), WB>>),
         Cat(<<WB, Lit("guarda d"), OneOf({"o", "a"}), Lit(" crian"),
               OneOf({"ç", "c"}), Lit("a"), WB>>),
         Cat(<<WB, Lit("filh"), OneOf({"o", "a"}), Lit(" menor"), WB>>),
         Cat(<<WB, Lit("adolescente infrator"), WB>>),
         Cat(<<WB, Lit("certid"), OneOf({"ã", "a"}), Lit("o de nascimento"), WB>>),
         Cat(<<WB, Lit("conselho tutelar"), WB>>) >>
    [] k = "SENSITIVE_SOCIAL" ->
      << Cat(<<WB, Lit("vulnerabilidade social"), WB>>),
         Cat(<<WB, Lit("benefici"), OneOf({"á", "a"}), Lit("rio do "),
               Alt(<<Lit("bolsa"),
                     Cat(<<Lit("aux"), OneOf({"í", "i"}), Lit("lio")>>)>>),
               WB>>),
         Cat(<<WB, Lit("recebe cesta b"), OneOf({"á", "a"}), Lit("sica"), WB>>),
         Cat(<<WB, Lit("cad"), OneOf({"ú", "u"}), Lit("nico"), WB>>) >>
    [] k = "SENSITIVE_RACE" ->
      << Cat(<<WB, Lit("autodeclara"), OneOf({"ç", "c"}), OneOf({"ã", "a"}),
               Lit("o de cor"), WB>>),
         Cat(<<WB, Lit("cor d"), OneOf({"a", "e"}), Lit(" pele"), WB>>),
         Cat(<<WB, Lit("quesito raça"), WB>>) >>
    [] k = "SENSITIVE_GENDER" ->
      << Cat(<<WB, Lit("nome social"), WB>>),
         Cat(<<WB, Lit("cirurgia de redesigna"), OneOf({"ç", "c"}),
               OneOf({"ã", "a"}), Lit("o"), WB>>),
         Cat(<<WB, Lit("identidade de g"), OneOf({"ê", "e"}), Lit("nero"), WB>>) >>]

\* the honorific cue r'(?i)\b(?:dr|dra|sr|sra)\.?\s', written in lower case
honorific_pattern ==
  Cat(<<WB, Alt(<<Lit("dr"), Lit("dra"), Lit("sr"), Lit("sra")>>),
        Opt(Lit(".")), Space>>)

\* the legal-process number pattern of the earlier engine revisions
SEI_PROCESS_pattern ==
  Cat(<<WB, DigitsN(5), Opt(Set({"-"} \cup Spaces)), Rep(Digit, 6, Inf),
        Opt(Lit("/")), DigitsN(4), Opt(Set({"-"} \cup Spaces)), DigitsN(2), WB>>)

(***************************************************************************)
(* Helpers of the detector                                                 *)
(***************************************************************************)
\* int(c) for a digit character
DigitVal(c) ==
  CASE c = "0" -> 0 [] c = "1" -> 1 [] c = "2" -> 2 [] c = "3" -> 3
    [] c = "4" -> 4 [] c = "5" -> 5 [] c = "6" -> 6 [] c = "7" -> 7
    [] c = "8" -> 8 [] c = "9" -> 9

\* str.isdigit()
IsDigitStr(s) == Len(s) > 0 /\ \A i \in 0 .. (Len(s) - 1) : CharAt(s, i) \in Digits

RECURSIVE WeightedSum(_, _, _, _)
\* sum(int(cpf[i]) * (w - i) for i in range(from, n))
WeightedSum(cpf, w, from, n) ==
  IF from >= n THEN 0
  ELSE DigitVal(CharAt(cpf, from)) * (w - from) + WeightedSum(cpf, w, from + 1, n)

\* cpf == cpf[0] * 11
AllSameDigit(cpf) == \A i \in 0 .. (Len(cpf) - 1) : CharAt(cpf, i) = CharAt(cpf, 0)

\* the second check digit computed with the weights of the first
digito2SameWeights(cpf) == ((WeightedSum(cpf, 10, 0, 10) * 10) % 11) % 10

\* the first and the second check digit computed from the leading digits
digito1(cpf) == ((WeightedSum(cpf, 10, 0, 9) * 10) % 11) % 10
digito2(cpf) == ((WeightedSum(cpf, 11, 0, 10) * 10) % 11) % 10

\* _validate_cpf_digit returning after the first check digit
ValidateFirstDigitOnly(cpf) ==
  IF Len(cpf) # 11 \/ ~ IsDigitStr(cpf) THEN FALSE
  ELSE IF AllSameDigit(cpf) THEN FALSE
  ELSE digito1(cpf) = DigitVal(CharAt(cpf, 9))

\* PIIDetector._validate_cpf_digit
_validate_cpf_digit(cpf) ==
  IF Len(cpf) # 11 \/ ~ IsDigitStr(cpf) THEN FALSE
  ELSE IF AllSameDigit(cpf) THEN FALSE
  ELSE IF digito1(cpf) # DigitVal(CharAt(cpf, 9)) THEN FALSE
  ELSE digito2(cpf) = DigitVal(CharAt(cpf, 10))

RECURSIVE OnlyDigits(_)
\* re.sub(r'\D', '', s)
OnlyDigits(s) ==
  IF Len(s) = 0 THEN ""
  ELSE (IF CharAt(s, 0) \in Digits THEN CharAt(s, 0) ELSE "")
         \o OnlyDigits(Slice(s, 1, Len(s)))

\* the window of _has_cpf_context
CPF_WINDOW == 50

\* PIIDetector._has_cpf_context(text, position)
_has_cpf_context(t, position) ==
  LET start   == Max(0, position - CPF_WINDOW)
      end     == Min(Len(t), position + CPF_WINDOW)
      context == LowerStr(Slice(t, start, end))
  IN  \E k \in 1 .. Len(CPF_CONTEXT_KEYWORDS) : Search(CPF_CONTEXT_KEYWORDS[k], context)

\* strict_pii_keywords of report/report.py, searched in the lower-cased
\* context window
strict_pii_keywords ==
  << Cat(<<WB, Lit("cpf"), WB>>), Cat(<<WB, Lit("cnpj"), WB>>),
     Cat(<<WB, Lit("rg"), WB>>), Cat(<<WB, Lit("cnh"), WB>>),
     Cat(<<WB, Lit("nis"), WB>>), Cat(<<WB, Lit("pis"), WB>>),
     Cat(<<WB, Lit("pasep"), WB>>), Cat(<<WB, Lit("nit"), WB>>),
     Cat(<<WB, Lit("ctps"), WB>>),
     Cat(<<WB, Lit("matr"), OneOf({"í", "i"}), Lit("cula"), WB>>),
     Cat(<<WB, Lit("t"), OneOf({"í", "i"}), Lit("tulo"), Rep(Space, 1, Inf),
           Lit("eleitor"), WB>>),
     Cat(<<WB, Lit("inscri"), OneOf({"ç", "c"}), OneOf({"ã", "a"}), Lit("o"), WB>>),
     Cat(<<WB, Lit("identidade"), WB>>),
     Cat(<<WB, Lit("documento"), Rep(Space, 1, Inf),
           Opt(Cat(<<Lit("de"), Rep(Space, 1, Inf)>>)), Lit("identidade"), WB>>) >>

\* the window of _is_near_pii_keyword
PII_KEYWORD_WINDOW == 30

\* PIIDetector._is_near_pii_keyword(text, position) of report/report.py
_is_near_pii_keyword(t, position) ==
  LET start   == Max(0, position - PII_KEYWORD_WINDOW)
      end     == Min(Len(t), position + PII_KEYWORD_WINDOW)
      context == LowerStr(Slice(t, start, end))
  IN  \E k \in 1 .. Len(strict_pii_keywords) : Search(strict_pii_keywords[k], context)

\* the offsets covered by a sequence of candidates
Covered(cs) == UNION {Range(cs[i].s, cs[i].e) : i \in 1 .. Len(cs)}

\* a candidate span of a detector: offsets, the key it is counted under
Cand(s, e, key, valid) == [s |-> s, e |-> e, key |-> key, valid |-> valid]

RECURSIVE FormattedCpfs(_, _, _)
\* first loop of _detect_cpf over the matches ms[i..] of formatted_pattern
FormattedCpfs(t, ms, i) ==
  IF i > Len(ms) THEN <<>>
  ELSE <<Cand(ms[i][1], ms[i][2], "CPF",
              _validate_cpf_digit(OnlyDigits(Slice(t, ms[i][1], ms[i][2]))))>>
         \o FormattedCpfs(t, ms, i + 1)

RECURSIVE LooseCpfsNoContext(_, _, _, _)
\* the loop over the loose matches without the `_has_cpf_context` test
LooseCpfsNoContext(t, ms, i, detected_positions) ==
  IF i > Len(ms) THEN <<>>
  ELSE LET s == ms[i][1]
           e == ms[i][2]
       IN  IF Range(s, e) \cap detected_positions # {}
           THEN LooseCpfsNoContext(t, ms, i + 1, detected_positions)
           ELSE <<Cand(s, e, "CPF", _validate_cpf_digit(Slice(t, s, e)))>>
                  \o LooseCpfsNoContext(t, ms, i + 1, detected_positions \cup Range(s, e))

RECURSIVE LooseCpfs(_, _, _, _)
\* second loop of _detect_cpf over the matches ms[i..] of loose_pattern,
\* detected_positions being the offsets detected so far
LooseCpfs(t, ms, i, detected_positions) ==
  IF i > Len(ms) THEN <<>>
  ELSE LET s == ms[i][1]
           e == ms[i][2]
       IN  IF Range(s, e) \cap detected_positions # {}
           THEN LooseCpfs(t, ms, i + 1, detected_positions)
           ELSE IF _has_cpf_context(t, s)
           THEN <<Cand(s, e, "CPF", _validate_cpf_digit(Slice(t, s, e)))>>
                  \o LooseCpfs(t, ms, i + 1, detected_positions \cup Range(s, e))
           ELSE LooseCpfs(t, ms, i + 1, detected_positions)

\* PIIDetector._detect_cpf
_detect_cpf(t) ==
  LET formatted == FormattedCpfs(t, FindIter(formatted_pattern, t), 1)
  IN  formatted \o LooseCpfs(t, FindIter(loose_pattern, t), 1, Covered(formatted))

RECURSIVE Tag(_, _, _)
\* the matches ms[i..] as candidates counted under key
Tag(ms, i, key) ==
  IF i > Len(ms) THEN <<>>
  ELSE <<Cand(ms[i][1], ms[i][2], key, TRUE)>> \o Tag(ms, i + 1, key)

\* the matches of the registry pattern
RegistryCands(t) == Tag(FindIterI(GENERAL_REGISTRY_pattern, t), 1, "GENERAL_REGISTRY")

\* the matches of the company-ID pattern
CnpjCands(t) == Tag(FindIter(CNPJ_pattern, t), 1, "CNPJ")

\* every match counted under the type of its own pattern
stats_key_of_own_type(pii_type) == pii_type

\* stats_key = 'FULL_ADDRESS' if pii_type == 'CEP' else pii_type
stats_key(pii_type) == IF pii_type = "CEP" THEN "FULL_ADDRESS" ELSE pii_type

\* for pii_type in ['EMAIL', 'FULL_ADDRESS', 'CEP']: the matches in loop order
ContactCands(t) ==
  Tag(FindIter(EMAIL_pattern, t), 1, stats_key("EMAIL"))
    \o Tag(FindIterI(FULL_ADDRESS_pattern, t), 1, stats_key("FULL_ADDRESS"))
    \o Tag(FindIter(CEP_pattern, t), 1, stats_key("CEP"))

RECURSIVE PhoneCandsFrom(_, _)
\* for pattern in self.phone_patterns: the matches in loop order
PhoneCandsFrom(t, k) ==
  IF k > Len(phone_patterns) THEN <<>>
  ELSE Tag(IF phone_ignorecase[k] THEN FindIterI(phone_patterns[k], t)
           ELSE FindIter(phone_patterns[k], t), 1, "PHONE")
         \o PhoneCandsFrom(t, k + 1)

PhoneCands(t) == PhoneCandsFrom(t, 1)

RECURSIVE KeywordCands(_, _, _, _)
\* for kw in keywords: the matches of the keywords kws[k..] of one type in
\* the lower-cased text lt (the keywords are matched with re.IGNORECASE)
KeywordCands(lt, kws, k, sens_type) ==
  IF k > Len(kws) THEN <<>>
  ELSE Tag(FindIter(kws[k], lt), 1, sens_type)
         \o KeywordCands(lt, kws, k + 1, sens_type)

RECURSIVE SensitiveCandsFrom(_, _)
\* for sens_type, keywords in self.sensitive_keywords.items()
SensitiveCandsFrom(lt, i) ==
  IF i > Len(SENSITIVE_TYPES) THEN <<>>
  ELSE KeywordCands(lt, sensitive_keywords[SENSITIVE_TYPES[i]], 1, SENSITIVE_TYPES[i])
         \o SensitiveCandsFrom(lt, i + 1)

SensitiveCands(t) == SensitiveCandsFrom(LowerStr(t), 1)

\* the matches of the legal-process pattern
SeiCands(t) == Tag(FindIter(SEI_PROCESS_pattern, t), 1, "SEI_PROCESS")

\* what the re.finditer calls of detect_and_redact yield on t, per loop: a
\* match list depends on the text alone
FindAll(t) ==
  [registry  |-> RegistryCands(t),
   cnpj      |-> CnpjCands(t),
   contact   |-> ContactCands(t),
   phone     |-> PhoneCands(t),
   sensitive |-> SensitiveCands(t)]

\* a Python dict with int values: d[k] += 1 on a defaultdict(int)
EmptyDict == <<>>
Inc(d, k) == IF k \in DOMAIN d THEN [d EXCEPT ![k] = @ + 1] ELSE (k :> 1) @@ d
Get(d, k) == IF k \in DOMAIN d THEN d[k] ELSE 0

RECURSIVE RedactRangeNoAlnumTest(_, _, _, _)
\* the rendering loop without the `text[i].isalnum()` test
RedactRangeNoAlnumTest(t, mask, a, b) ==
  IF a >= b THEN ""
  ELSE (IF a \in mask THEN "x" ELSE CharAt(t, a))
         \o RedactRangeNoAlnumTest(t, mask, a + 1, b)

RECURSIVE RedactRange(_, _, _, _)
\* the rendering loop of detect_and_redact over the offsets a .. b-1, computed
\* on the two halves of the range
RedactRange(t, mask, a, b) ==
  IF a >= b THEN ""
  ELSE IF b = a + 1
  THEN (IF a \in mask
        THEN (IF CharAt(t, a) \in AlnumChars THEN "x" ELSE CharAt(t, a))
        ELSE CharAt(t, a))
  ELSE RedactRange(t, mask, a, (a + b) \div 2) \o RedactRange(t, mask, (a + b) \div 2, b)

\* "".join(redacted_chars)
Redact(t, mask) == RedactRange(t, mask, 0, Len(t))

(***************************************************************************)
(* The named-entity filter                                                 *)
(***************************************************************************)
\* PIIDetector.COMMON_NAMES
COMMON_NAMES ==
  {"maria", "joao", "ana", "carlos", "paulo", "jose", "lucas", "pedro",
   "marcos", "luiz", "gabriel", "rafael", "francisco", "marcelo",
   "bruno", "felipe", "guilherme", "rodrigo", "antonio", "mateus",
   "andre", "fernando", "fabio", "leonardo", "gustavo", "juliana",
   "patricia", "aline", "camila", "bruna", "jessica", "leticia",
   "julia", "luciana", "amanda", "mariana", "vanessa", "alice",
   "beatriz", "larissa", "debora", "claudia", "carol", "carolina",
   "sandra", "regina", "roberta", "edson", "sergio", "vitor", "thiago",
   "alexandre", "eduardo", "daniel", "renato", "ricardo", "jorge",
   "samuel", "diego", "leandro", "tiago", "anderson", "claudio",
   "marcio", "mauro", "roberto", "wellington", "wallace", "robson",
   "cristiano", "geraldo", "raimundo", "sebastiao", "miguel", "arthur",
   "heitor", "bernardo", "davi", "theo", "lorenzo", "gabriel", "gael",
   "bento", "helena", "laura", "sophia", "manuela", "maite", "liz",
   "cecilia", "elisa", "maitê", "eloá"}

\* PIIDetector.COMMON_SURNAMES
COMMON_SURNAMES ==
  {"silva", "santos", "oliveira", "souza", "rodrigues", "ferreira",
   "alves", "pereira", "lima", "gomes", "costa", "ribeiro", "martins",
   "carvalho", "almeida", "lopes", "soares", "fernandes", "vieira",
   "barbosa", "rocha", "dias", "nascimento", "andrade", "moreira",
   "nunes", "marques", "machado", "mendes", "freitas", "cardoso",
   "ramos", "goncalves", "santana", "teixeira", "cavalcanti", "moura",
   "campos", "jesus", "pinto", "araujo", "leite", "barros", "farias",
   "cunha", "reis", "siqueira", "moraes", "castro", "batista", "neves",
   "rosa", "medeiros", "dantas", "conceicao", "braga", "filho", "neto",
   "junior", "sobrinho", "mota", "vasconcelos", "cruz", "viana",
   "peixoto", "maia", "monteiro", "coelho", "correia", "brito"}

RECURSIVE Strip(_)
\* str.strip()
Strip(s) ==
  IF Len(s) = 0 THEN s
  ELSE IF CharAt(s, 0) \in Spaces THEN Strip(Slice(s, 1, Len(s)))
  ELSE IF CharAt(s, Len(s) - 1) \in Spaces THEN Strip(Slice(s, 0, Len(s) - 1))
  ELSE s

RECURSIVE RemovePunct(_)
\* re.sub(r'[^\w\s]', '', s)
RemovePunct(s) ==
  IF Len(s) = 0 THEN ""
  ELSE (IF CharAt(s, 0) \in WordChars \cup Spaces THEN CharAt(s, 0) ELSE "")
         \o RemovePunct(Slice(s, 1, Len(s)))

RECURSIVE SplitFrom(_, _, _)
\* str.split(): the whitespace-separated tokens of s from offset i, cur being
\* the token read so far
SplitFrom(s, i, cur) ==
  IF i >= Len(s) THEN (IF cur = "" THEN <<>> ELSE <<cur>>)
  ELSE IF CharAt(s, i) \in Spaces
       THEN (IF cur = "" THEN <<>> ELSE <<cur>>) \o SplitFrom(s, i + 1, "")
       ELSE SplitFrom(s, i + 1, cur \o CharAt(s, i))

Split(s) == SplitFrom(s, 0, "")

\* the honorific is looked for in the 5 characters before the entity
HONORIFIC_WINDOW == 5

\* the entity test without `if len(parts) < 2: continue`
IsPersonNameAnyLength(t, start_char, end_char, label) ==
  /\ label = "PER"
  /\ LET parts == Split(RemovePunct(LowerStr(Strip(Slice(t, start_char, end_char)))))
     IN  \/ \E i \in 1 .. Len(parts) :
              parts[i] \in COMMON_NAMES \/ parts[i] \in COMMON_SURNAMES
         \/ Search(honorific_pattern,
                   LowerStr(Slice(t, Max(0, start_char - HONORIFIC_WINDOW), start_char)))

\* the test of detect_and_redact on one entity of doc.ents: TRUE when the
\* entity is a candidate PERSON_NAME span
IsPersonName(t, start_char, end_char, label) ==
  /\ label = "PER"
  /\ LET name_candidate == Strip(Slice(t, start_char, end_char))
         clean_name     == RemovePunct(LowerStr(name_candidate))
         parts          == Split(clean_name)
         has_common     == \E i \in 1 .. Len(parts) :
                              parts[i] \in COMMON_NAMES \/ parts[i] \in COMMON_SURNAMES
         has_honor      == Search(honorific_pattern,
                                  LowerStr(Slice(t, Max(0, start_char - HONORIFIC_WINDOW),
                                                 start_char)))
     IN  Len(parts) >= 2 /\ (has_common \/ has_honor)

(***************************************************************************)
(* Inputs                                                                  *)
(***************************************************************************)
\* the recognizer yields at most MaxEnts entities for one text
MaxEnts == 2
\* an entity covers at most MaxEntTokens consecutive words
MaxEntTokens == 2
\* the phone-number library yields at most MaxLibMatches matches for one text
MaxLibMatches == 1

\* the segments the texts are made of
Vocabulary ==
  {"cpf",
   "cpf do requerente informado na ficha anexa abaixo",
   "cpf do requerente informado na ficha anexa, abaixo",
   "529.982.247-25", "529.982.247-26", "cpf529.982.247-25",
   "52998224725",
   "laudo medico", "rua laudo medico",
   "rg: 1234567", "cnh",
   "ana@x.org", "bia@y.gov.br",
   "70000-000", "12.345.678/0001-90",
   "maria silva", "dr. kleber zanotto", "maria advogados",
   "00015-1134567890/2026-01",
   "(11) 3456-7890", "tel: 01234567890"}

\* the texts: the empty text, one segment, or two segments and a space
Texts == {""} \cup Vocabulary \cup {a \o " " \o b : a \in Vocabulary, b \in Vocabulary}

\* a Python value passed as the argument: a str, None, float('nan'), pandas.NA,
\* an int, or a list of n >= 1 non-null elements
Value(kind, s, n) == [kind |-> kind, s |-> s, n |-> n]
StrValue(t) == Value("str", t, 0)
NonStrValues ==
  {Value("None", "", 0), Value("nan", "", 0), Value("NA", "", 0),
   Value("int", "", 0)} \cup {Value("list", "", n) : n \in 1 .. 2}

\* the possible results of bool(pd.isna(v)): pd.isna is element-wise on a
\* list-like, and the truth value of an array with more than one element is
\* an error
IsnaTruth(v) ==
  CASE v.kind \in {"None", "nan", "NA"} -> {"True"}
    [] v.kind \in {"int", "str"}        -> {"False"}
    [] v.kind = "list" /\ v.n = 1       -> {"False"}
    [] v.kind = "list" /\ v.n > 1       -> {"ValueError"}

\* the ways the guard `if pd.isna(text) or not isinstance(text, str)` can go
GuardOutcomes(v) ==
  {o \in {"raise", "passthrough", "proceed"} :
     \/ o = "raise" /\ "ValueError" \in IsnaTruth(v)
     \/ o = "passthrough"
          /\ ("True" \in IsnaTruth(v) \/ ("False" \in IsnaTruth(v) /\ v.kind # "str"))
     \/ o = "proceed" /\ "False" \in IsnaTruth(v) /\ v.kind = "str"}

\* the word-aligned spans of at most MaxEntTokens words: what the recognizer
\* may report as an entity
WordStarts(t) ==
  {p \in 0 .. (Len(t) - 1) :
     CharAt(t, p) \in WordChars /\ (p = 0 \/ CharAt(t, p - 1) \notin WordChars)}
WordEnds(t) ==
  {e \in 1 .. Len(t) :
     CharAt(t, e - 1) \in WordChars /\ (e = Len(t) \/ CharAt(t, e) \notin WordChars)}
EntitySpans(t) ==
  LET ws == WordStarts(t)
      we == WordEnds(t)
  IN  {sp \in ws \X we :
         /\ sp[1] < sp[2]
         /\ Cardinality({p \in ws : sp[1] <= p /\ p < sp[2]}) <= MaxEntTokens}
EntityLabels == {"PER", "LOC"}

\* the digit-delimited runs of phone-number characters with 8 to 13 digits (a
\* national number with or without area and country code): what the
\* phone-number library may report as a match
PhoneChars == Digits \cup {" ", "(", ")", "-", ".", "+"}
PhoneLibSpans(t) ==
  LET starts == {p \in 0 .. (Len(t) - 1) :
                   /\ CharAt(t, p) \in Digits \cup {"(", "+"}
                   /\ (p = 0 \/ CharAt(t, p - 1) \notin Digits)}
      ends   == {e \in 1 .. Len(t) :
                   /\ CharAt(t, e - 1) \in Digits
                   /\ (e = Len(t) \/ CharAt(t, e) \notin Digits)}
  IN  {sp \in starts \X ends :
         /\ sp[1] < sp[2]
         /\ \A i \in sp[1] .. (sp[2] - 1) : CharAt(t, i) \in PhoneChars
         /\ Cardinality({i \in sp[1] .. (sp[2] - 1) : CharAt(t, i) \in Digits}) \in 8 .. 13}

(***************************************************************************)
(* State of one call of detect_and_redact                                  *)
(***************************************************************************)
VARIABLES
  text,             \* the argument
  nlp,              \* self.nlp: "loaded", or "None" when the model is missing
  pc,               \* position in detect_and_redact
  indices_to_mask,  \* the mask index set
  pii_stats,        \* category -> count
  invalid_cpfs,     \* 'CPF_INVALID' -> count
  has_identifier,
  cands,            \* the matches the current loop has still to visit
  ents_seen,        \* number of entities of doc.ents visited
  lib_seen,         \* number of matches of the phone-number library visited
  result,           \* <<>> or the returned tuple
  cur,              \* history: the candidate span the last step handled
  accepted,         \* history: the spans accepted into the mask
  matches,          \* the re.finditer results of the loops, per stage
  ent_label,        \* history: ent.label_ of the entity the last step visited
  threads,          \* the suspended invocations of other request threads: their locals
  batch             \* the locals of FileProcessor.process_txt

vars ==
  <<text, nlp, pc, indices_to_mask, pii_stats, invalid_cpfs, has_identifier,
    cands, ents_seen, lib_seen, result, cur, accepted, matches, ent_label, threads, batch>>

NoCand == Cand(-1, -1, "", FALSE)

Locals0 ==
  /\ indices_to_mask = {}
  /\ pii_stats = EmptyDict
  /\ invalid_cpfs = EmptyDict
  /\ has_identifier = FALSE
  /\ cands = <<>>
  /\ ents_seen = 0
  /\ lib_seen = 0
  /\ result = <<>>
  /\ cur = NoCand
  /\ accepted = {}
  /\ ent_label = ""
  /\ threads = <<>>
  /\ batch = <<>>

Init ==
  /\ text \in {StrValue(t) : t \in Texts} \cup NonStrValues
  /\ nlp \in {"loaded", "None"}
  /\ pc = "call"
  /\ Locals0
  /\ matches = <<>>

(***************************************************************************)
(* detect_and_redact, one step per loop iteration                          *)
(***************************************************************************)
\* the range of a match with its end offset included
match_range_inclusive(c) == c.s .. c.e

\* match_range = set(range(start, end))
match_range(c) == Range(c.s, c.e)

\* a loop that adds its matches without the intersection test
NoOverlapTest(c, mask) == TRUE

\* `if not match_range.intersection(indices_to_mask)`
NoOverlap(c, mask) == match_range(c) \cap mask = {}

\* the sensitive-topic loop without its `if has_identifier:` test
SensitiveGateOpen(identifier) == TRUE

\* `if has_identifier:` of the sensitive-topic loop
SensitiveGate(identifier) == identifier

\* the tax-ID loop without its `if not is_valid:` branch
CountInvalidNever(invalid, c) == invalid

\* `if not is_valid: invalid_cpfs['CPF_INVALID'] += 1`
CountInvalid(invalid, c) == IF ~ c.valid THEN Inc(invalid, "CPF_INVALID") ELSE invalid

\* a loop body that adds the candidate to the mask and leaves the counts alone
AccumulateMaskOnly(c, identifies) ==
  IF NoOverlap(c, indices_to_mask)
  THEN /\ indices_to_mask' = indices_to_mask \cup match_range(c)
       /\ has_identifier' = (has_identifier \/ identifies)
       /\ accepted' = accepted \cup {c}
       /\ UNCHANGED pii_stats
  ELSE UNCHANGED <<indices_to_mask, pii_stats, has_identifier, accepted>>

\* the body shared by the loops that test the overlap: the candidate is
\* added and counted unless it intersects the mask
Accumulate(c, identifies) ==
  IF NoOverlap(c, indices_to_mask)
  THEN /\ indices_to_mask' = indices_to_mask \cup match_range(c)
       /\ pii_stats' = Inc(pii_stats, c.key)
       /\ has_identifier' = (has_identifier \/ identifies)
       /\ accepted' = accepted \cup {c}
  ELSE UNCHANGED <<indices_to_mask, pii_stats, has_identifier, accepted>>

\* entry: the guard on the argument, then the locals and the tax-ID matches
Call ==
  /\ pc = "call"
  /\ \E o \in GuardOutcomes(text) :
       \/ /\ o = "raise"
          /\ pc' = "raised"
          /\ UNCHANGED <<result, cands, matches>>
       \/ /\ o = "passthrough"
          /\ pc' = "done"
          /\ result' = <<text, EmptyDict, EmptyDict>>
          /\ UNCHANGED <<cands, matches>>
       \/ /\ o = "proceed"
          /\ pc' = "cpf"
          /\ cands' = _detect_cpf(text.s)
          /\ matches' = FindAll(text.s)
          /\ UNCHANGED result
  /\ indices_to_mask' = {}
  /\ pii_stats' = EmptyDict
  /\ invalid_cpfs' = EmptyDict
  /\ has_identifier' = FALSE
  /\ UNCHANGED <<text, nlp, ents_seen, lib_seen, cur, accepted, ent_label, threads, batch>>

\* 1. CPF: every span of _detect_cpf is masked and counted
DetectCpf ==
  /\ pc = "cpf"
  /\ IF cands = <<>>
     THEN /\ pc' = "names"
          /\ cur' = NoCand
          /\ UNCHANGED <<cands, indices_to_mask, pii_stats, invalid_cpfs,
                         has_identifier, accepted>>
     ELSE LET c == Head(cands)
          IN  /\ cands' = Tail(cands)
              /\ cur' = c
              /\ indices_to_mask' = indices_to_mask \cup match_range(c)
              /\ pii_stats' = Inc(pii_stats, "CPF")
              /\ has_identifier' = TRUE
              /\ invalid_cpfs' = CountInvalid(invalid_cpfs, c)
              /\ accepted' = accepted \cup {c}
              /\ UNCHANGED pc
  /\ UNCHANGED <<text, nlp, ents_seen, lib_seen, result, matches, ent_label, threads, batch>>

\* 2. names: `if self.nlp:` is false, the recognizer is not used
RecognizerUnavailable ==
  /\ pc = "names"
  /\ nlp = "None"
  /\ pc' = "registry"
  /\ cands' = matches.registry
  /\ cur' = NoCand
  /\ UNCHANGED <<text, nlp, indices_to_mask, pii_stats, invalid_cpfs,
                 has_identifier, ents_seen, lib_seen, result, accepted,
                 matches, ent_label, threads, batch>>

\* 2. names: self.nlp(text) or the use of an entity raises and control
\* passes to the except clause
RecognizerRaise ==
  /\ pc = "names"
  /\ nlp = "loaded"
  /\ pc' = "names_except"
  /\ cur' = NoCand
  /\ ent_label' = ""
  /\ UNCHANGED <<threads, batch>>
  /\ UNCHANGED <<text, nlp, indices_to_mask, pii_stats, invalid_cpfs,
                 has_identifier, cands, ents_seen, lib_seen, result, accepted,
                 matches>>

\* 2. names: `except Exception: pass`
RecognizerExcept ==
  /\ pc = "names_except"
  /\ pc' = "registry"
  /\ cands' = matches.registry
  /\ ents_seen' = 0
  /\ UNCHANGED <<text, nlp, indices_to_mask, pii_stats, invalid_cpfs,
                 has_identifier, lib_seen, result, cur, accepted, matches,
                 ent_label, threads, batch>>

\* 2. names: one iteration of `for ent in doc.ents`
ConsumeEntity ==
  /\ pc = "names"
  /\ nlp = "loaded"
  /\ ents_seen < MaxEnts
  /\ \E sp \in EntitySpans(text.s), label \in EntityLabels :
       /\ ent_label' = label
       /\ UNCHANGED <<threads, batch>>
       /\ IF IsPersonName(text.s, sp[1], sp[2], label)
          THEN /\ cur' = Cand(sp[1], sp[2], "PERSON_NAME", TRUE)
               /\ Accumulate(Cand(sp[1], sp[2], "PERSON_NAME", TRUE), TRUE)
          ELSE /\ cur' = NoCand
               /\ UNCHANGED <<indices_to_mask, pii_stats, has_identifier, accepted>>
  /\ ents_seen' = ents_seen + 1
  /\ UNCHANGED <<text, nlp, pc, invalid_cpfs, cands, lib_seen, result, matches>>

\* 2. names: doc.ents is exhausted
RecognizerDone ==
  /\ pc = "names"
  /\ nlp = "loaded"
  /\ pc' = "registry"
  /\ cands' = matches.registry
  /\ cur' = NoCand
  /\ ent_label' = ""
  /\ UNCHANGED <<threads, batch>>
  /\ ents_seen' = 0
  /\ UNCHANGED <<text, nlp, indices_to_mask, pii_stats, invalid_cpfs,
                 has_identifier, lib_seen, result, accepted, matches>>

\* one iteration, or the end, of a loop over regex matches that tests the
\* overlap; next_cands are the matches of the loop that follows
RegexLoop(here, next, next_cands, identifies) ==
  /\ pc = here
  /\ IF cands = <<>>
     THEN /\ pc' = next
          /\ cands' = next_cands
          /\ cur' = NoCand
          /\ UNCHANGED <<indices_to_mask, pii_stats, has_identifier, accepted>>
     ELSE /\ cands' = Tail(cands)
          /\ cur' = Head(cands)
          /\ Accumulate(Head(cands), identifies)
          /\ UNCHANGED pc
  /\ UNCHANGED <<text, nlp, invalid_cpfs, ents_seen, lib_seen, result, matches,
                 ent_label, threads, batch>>

\* 3. general registry numbers
DetectRegistry == RegexLoop("registry", "cnpj", matches.cnpj, TRUE)

\* the company-ID loop setting has_identifier as the registry loop does
DetectCnpjIdentifying == RegexLoop("cnpj", "contact", matches.contact, TRUE)

\* company IDs
DetectCnpj == RegexLoop("cnpj", "contact", matches.contact, FALSE)

\* e-mail, address and postal code
DetectContact == RegexLoop("contact", "phone", matches.phone, FALSE)

\* the phone patterns
DetectPhone == RegexLoop("phone", "phonelib", <<>>, FALSE)

\* one match of phonenumbers.PhoneNumberMatcher(text, "BR")
PhoneLibMatch ==
  /\ pc = "phonelib"
  /\ lib_seen < MaxLibMatches
  /\ \E sp \in PhoneLibSpans(text.s), is_valid_number \in BOOLEAN :
       IF is_valid_number
       THEN /\ cur' = Cand(sp[1], sp[2], "PHONE", TRUE)
            /\ Accumulate(Cand(sp[1], sp[2], "PHONE", TRUE), FALSE)
       ELSE /\ cur' = NoCand
            /\ UNCHANGED <<indices_to_mask, pii_stats, has_identifier, accepted>>
  /\ lib_seen' = lib_seen + 1
  /\ UNCHANGED <<text, nlp, pc, invalid_cpfs, cands, ents_seen, result,
                 matches, ent_label, threads, batch>>

\* the phone-number library raises; `except Exception: pass`
PhoneLibRaise ==
  /\ pc = "phonelib"
  /\ pc' = "sensitive"
  /\ cands' = matches.sensitive
  /\ cur' = NoCand
  /\ lib_seen' = 0
  /\ UNCHANGED <<text, nlp, indices_to_mask, pii_stats, invalid_cpfs,
                 has_identifier, ents_seen, result, accepted, matches,
                 ent_label, threads, batch>>

\* the matches of the phone-number library are exhausted
PhoneLibDone ==
  /\ pc = "phonelib"
  /\ pc' = "sensitive"
  /\ cands' = matches.sensitive
  /\ cur' = NoCand
  /\ lib_seen' = 0
  /\ UNCHANGED <<text, nlp, indices_to_mask, pii_stats, invalid_cpfs,
                 has_identifier, ents_seen, result, accepted, matches,
                 ent_label, threads, batch>>

\* contextual sensitive data: a keyword match is masked and counted when an
\* identifier was found, without any test of the overlap
DetectSensitive ==
  /\ pc = "sensitive"
  /\ IF cands = <<>>
     THEN /\ pc' = "render"
          /\ cur' = NoCand
          /\ UNCHANGED <<cands, indices_to_mask, pii_stats, accepted>>
     ELSE LET c == Head(cands)
          IN  /\ cands' = Tail(cands)
              /\ UNCHANGED pc
              /\ IF SensitiveGate(has_identifier)
                 THEN /\ cur' = c
                      /\ indices_to_mask' = indices_to_mask \cup match_range(c)
                      /\ pii_stats' = Inc(pii_stats, c.key)
                      /\ accepted' = accepted \cup {c}
                 ELSE /\ cur' = NoCand
                      /\ UNCHANGED <<indices_to_mask, pii_stats, accepted>>
  /\ UNCHANGED <<text, nlp, invalid_cpfs, has_identifier, ents_seen, lib_seen,
                 result, matches, ent_label, threads, batch>>

\* the rendering loop and the return
Render ==
  /\ pc = "render"
  /\ pc' = "done"
  /\ result' = <<StrValue(Redact(text.s, indices_to_mask)), pii_stats, invalid_cpfs>>
  /\ UNCHANGED <<text, nlp, indices_to_mask, pii_stats, invalid_cpfs,
                 has_identifier, cands, ents_seen, lib_seen, cur,
                 accepted, matches, ent_label, threads, batch>>

Next ==
  \/ Call
  \/ DetectCpf
  \/ RecognizerUnavailable
  \/ RecognizerRaise
  \/ RecognizerExcept
  \/ ConsumeEntity
  \/ RecognizerDone
  \/ DetectRegistry
  \/ DetectCnpj
  \/ DetectContact
  \/ DetectPhone
  \/ PhoneLibMatch
  \/ PhoneLibRaise
  \/ PhoneLibDone
  \/ DetectSensitive
  \/ Render

Spec == Init /\ [][Next]_vars

(***************************************************************************)
(* The rendering loop alone, on every mask                                 *)
(***************************************************************************)
\* the rendered texts are the prefixes of the samples up to this length
MaxRenderLen == 6

RenderSamples == {"CPF: 123.456.789-09", "João, 52!", "a_b@x.y", "9-é (z)"}

RenderTexts ==
  {Slice(s, 0, Min(n, Len(s))) : s \in RenderSamples, n \in 0 .. MaxRenderLen}

\* the rendering loop entered with any text and any mask: a mask may hold
\* offsets of any character of the text
InitRender ==
  /\ text \in {StrValue(t) : t \in RenderTexts}
  /\ indices_to_mask \in SUBSET (0 .. (Len(text.s) - 1))
  /\ nlp = "None"
  /\ pc = "render"
  /\ pii_stats = EmptyDict
  /\ invalid_cpfs = EmptyDict
  /\ has_identifier = FALSE
  /\ cands = <<>>
  /\ ents_seen = 0
  /\ lib_seen = 0
  /\ result = <<>>
  /\ cur = NoCand
  /\ accepted = {}
  /\ matches = <<>>
  /\ ent_label = ""
  /\ threads = <<>>
  /\ batch = <<>>

SpecRender == InitRender /\ [][Render]_vars

(***************************************************************************)
(* _validate_cpf_digit alone                                               *)
(***************************************************************************)
KnownValidCpf == "52998224725"

\* s with the character at offset i replaced by d
ReplaceAt(s, i, d) == Slice(s, 0, i) \o d \o Slice(s, i + 1, Len(s))

\* the leading nine digits the validator is tried on, each with every pair of
\* check digits
CpfBases ==
  {"529982247", "000000000", "111111111", "555555555", "999999999",
   "123456789", "100000000", "987654321"}

CpfInputs ==
  {b \o d1 \o d2 : b \in CpfBases, d1 \in Digits, d2 \in Digits}
    \cup {ReplaceAt(KnownValidCpf, i, d) : i \in 0 .. 10, d \in Digits}
    \cup {"", "5299822472", "529982247250", "529.982.247-25", "5299822472a"}

InitCpf ==
  /\ text \in {StrValue(c) : c \in CpfInputs}
  /\ nlp = "None"
  /\ pc = "validate"
  /\ Locals0
  /\ matches = <<>>

\* one call of _validate_cpf_digit on the argument
ValidateCpf ==
  /\ pc = "validate"
  /\ pc' = "validated"
  /\ result' = <<_validate_cpf_digit(text.s)>>
  /\ UNCHANGED <<text, nlp, indices_to_mask, pii_stats, invalid_cpfs,
                 has_identifier, cands, ents_seen, lib_seen, cur, accepted,
                 matches, ent_label, threads, batch>>

SpecCpf == InitCpf /\ [][ValidateCpf]_vars

(***************************************************************************)
(* The per-record risk classification of report/report.py (main)           *)
(***************************************************************************)
\* PIIDetector.PII_TYPES of report/report.py: category -> description
REPORT_PII_TYPES ==
  [k \in {"PERSON_NAME", "CPF", "CNPJ", "EMAIL", "PHONE", "FULL_ADDRESS",
          "GENERAL_REGISTRY", "SENSITIVE_HEALTH", "SENSITIVE_MINOR",
          "SENSITIVE_SOCIAL", "SENSITIVE_RACE", "SENSITIVE_GENDER"} |->
     CASE k = "PERSON_NAME"      -> "Nome de Pessoa"
       [] k = "CPF"              -> "Cadastro de Pessoa Física"
       [] k = "CNPJ"             -> "Cadastro Nacional de Pessoa Jurídica"
       [] k = "EMAIL"            -> "Endereço de E-mail"
       [] k = "PHONE"            -> "Número de Telefone"
       [] k = "FULL_ADDRESS"     -> "Endereço Completo"
       [] k = "GENERAL_REGISTRY" -> "Registros Gerais (RG/NIS/PIS/CNH)"
       [] k = "SENSITIVE_HEALTH" -> "Dados de Saúde (Sensível)"
       [] k = "SENSITIVE_MINOR"  -> "Dados de Menor de Idade (Sensível)"
       [] k = "SENSITIVE_SOCIAL" -> "Dados Sociais (Sensível)"
       [] k = "SENSITIVE_RACE"   -> "Dados de Raça/Cor (Sensível)"
       [] k = "SENSITIVE_GENDER" -> "Dados de Gênero (Sensível)"]

\* PIIDetector.get_description: PII_TYPES.get(key, key)
get_description(key) ==
  IF key \in DOMAIN REPORT_PII_TYPES THEN REPORT_PII_TYPES[key] ELSE key

\* the order in which detect_and_redact of report/report.py first inserts the
\* keys of its stats dictionary: CPF, the regex_patterns in their order, the
\* phones, the sensitive_keywords in their order, the names
StatsKeyOrder ==
  << "CPF", "CNPJ", "EMAIL", "FULL_ADDRESS", "GENERAL_REGISTRY", "PHONE",
     "SENSITIVE_HEALTH", "SENSITIVE_MINOR", "SENSITIVE_SOCIAL",
     "SENSITIVE_RACE", "SENSITIVE_GENDER", "PERSON_NAME" >>

\* stats.keys(): the keys present, in insertion order
StatsKeys(stats) ==
  LET present(k) == k \in DOMAIN stats
  IN  SelectSeq(StatsKeyOrder, present)

critical_categories ==
  {"CPF", "CNPJ", "GENERAL_REGISTRY", "SENSITIVE_HEALTH", "SENSITIVE_MINOR",
   "SENSITIVE_SOCIAL", "SENSITIVE_RACE", "SENSITIVE_GENDER"}

moderate_categories == {"EMAIL", "PHONE", "FULL_ADDRESS", "PERSON_NAME"}

\* [get_description(cat) for cat in stats.keys() if cat in categories]
FoundIn(stats, categories) ==
  LET member(k) == k \in categories
      found     == SelectSeq(StatsKeys(stats), member)
  IN  [i \in 1 .. Len(found) |-> get_description(found[i])]

\* the classification with the two tests in the other order
ClassifyModerateFirst(stats) ==
  IF DOMAIN stats # {}
  THEN IF \E cat \in moderate_categories : cat \in DOMAIN stats
       THEN <<[level |-> "MODERADO", reasons |-> FoundIn(stats, moderate_categories)]>>
       ELSE IF \E cat \in critical_categories : cat \in DOMAIN stats
            THEN <<[level |-> "CRÍTICO", reasons |-> FoundIn(stats, critical_categories)]>>
            ELSE <<>>
  ELSE <<[level |-> "PÚBLICO", reasons |-> <<>>]>>

\* the entries record_risk_analysis receives for one record whose statistics
\* are stats: one entry, or none when stats is not empty and holds no key of
\* the two sets
ClassifyRecord(stats) ==
  IF DOMAIN stats # {}
  THEN LET has_critical == \E cat \in critical_categories : cat \in DOMAIN stats
           has_moderate == \E cat \in moderate_categories : cat \in DOMAIN stats
       IN  IF has_critical
           THEN <<[level |-> "CRÍTICO", reasons |-> FoundIn(stats, critical_categories)]>>
           ELSE IF has_moderate
                THEN <<[level |-> "MODERADO", reasons |-> FoundIn(stats, moderate_categories)]>>
                ELSE <<>>
  ELSE <<[level |-> "PÚBLICO", reasons |-> <<>>]>>

\* the statistics the classification is tried on: at most MaxStatsKeys
\* categories, each counted between 1 and MaxCount
MaxStatsKeys == 3
MaxCount == 2

RiskStats ==
  UNION {[K -> 1 .. MaxCount] :
           K \in {K \in SUBSET DOMAIN REPORT_PII_TYPES : Cardinality(K) <= MaxStatsKeys}}

InitRisk ==
  /\ pii_stats \in RiskStats
  /\ text = StrValue("")
  /\ indices_to_mask = {}
  /\ nlp = "None"
  /\ pc = "classify"
  /\ invalid_cpfs = EmptyDict
  /\ has_identifier = FALSE
  /\ cands = <<>>
  /\ ents_seen = 0
  /\ lib_seen = 0
  /\ result = <<>>
  /\ cur = NoCand
  /\ accepted = {}
  /\ matches = <<>>
  /\ ent_label = ""
  /\ threads = <<>>
  /\ batch = <<>>

\* one iteration of the loop of main over the records, after the detector
\* returned the statistics pii_stats
ClassifyRisk ==
  /\ pc = "classify"
  /\ pc' = "classified"
  /\ result' = ClassifyRecord(pii_stats)
  /\ UNCHANGED <<text, nlp, indices_to_mask, pii_stats, invalid_cpfs,
                 has_identifier, cands, ents_seen, lib_seen, cur, accepted,
                 matches, ent_label, threads, batch>>

SpecRisk == InitRisk /\ [][ClassifyRisk]_vars

(***************************************************************************)
(* detect_and_redact as a function of the text and of the answers of the   *)
(* recognizer and of the phone-number library                              *)
(***************************************************************************)
\* the candidates cs of one loop with what the loop does with them: whether
\* it tests the overlap, whether a match sets has_identifier, whether it is
\* behind `if has_identifier:`
Stage(cs, overlap, identifies, gated) ==
  [i \in 1 .. Len(cs) |->
     [c |-> cs[i], overlap |-> overlap, identifies |-> identifies, gated |-> gated]]

RECURSIVE SeqOfSet(_)
\* the spans of a set in some order
SeqOfSet(S) ==
  IF S = {} THEN <<>>
  ELSE LET x == CHOOSE y \in S : TRUE
       IN  <<x>> \o SeqOfSet(S \ {x})

\* the body of a loop on one candidate
StepAlone(st, x) ==
  IF \/ x.gated /\ ~ SensitiveGate(st.hid)
     \/ x.overlap /\ ~ NoOverlap(x.c, st.mask)
  THEN st
  ELSE [mask    |-> st.mask \cup match_range(x.c),
        stats   |-> Inc(st.stats, x.c.key),
        hid     |-> st.hid \/ x.identifies,
        invalid |-> CountInvalid(st.invalid, x.c)]

RECURSIVE FoldPipeline(_, _)
\* the loops of detect_and_redact run one after the other over xs
FoldPipeline(st, xs) ==
  IF xs = <<>> THEN st
  ELSE CHOOSE r \in {FoldPipeline(nx, Tail(xs)) : nx \in {StepAlone(st, Head(xs))}} : TRUE

\* the rendering loop and the `return`
ReturnOf(t, st) == <<StrValue(Redact(t, st.mask)), st.stats, st.invalid>>

\* the result of one invocation run alone on the text t, the recognizer
\* having reported the person names `names` that pass the name filter and
\* the phone-number library the valid numbers `phones`
AloneResult(t, names, phones) ==
  LET s0 == [mask |-> {}, stats |-> EmptyDict, hid |-> FALSE, invalid |-> EmptyDict]
  IN  CHOOSE r \in
        {ReturnOf(t, st) :
           st \in {FoldPipeline(s0,
                      Stage(_detect_cpf(t), FALSE, TRUE, FALSE)
                        \o Stage(SeqOfSet(names), TRUE, TRUE, FALSE)
                        \o Stage(m.registry, TRUE, TRUE, FALSE)
                        \o Stage(m.cnpj, TRUE, FALSE, FALSE)
                        \o Stage(m.contact, TRUE, FALSE, FALSE)
                        \o Stage(m.phone, TRUE, FALSE, FALSE)
                        \o Stage(SeqOfSet(phones), TRUE, FALSE, FALSE)
                        \o Stage(m.sensitive, FALSE, FALSE, TRUE)) :
                    m \in {FindAll(t)}}} : TRUE

(***************************************************************************)
(* Two request threads on the one detector of app.py                       *)
(***************************************************************************)
\* the locals of the running invocation: everything detect_and_redact
\* assigns lives in its own frame, self.nlp alone belongs to the detector
Frame ==
  [text |-> text, pc |-> pc, indices_to_mask |-> indices_to_mask,
   pii_stats |-> pii_stats, invalid_cpfs |-> invalid_cpfs,
   has_identifier |-> has_identifier, cands |-> cands,
   ents_seen |-> ents_seen, lib_seen |-> lib_seen, result |-> result,
   cur |-> cur, accepted |-> accepted, matches |-> matches,
   ent_label |-> ent_label]

\* the frame of an invocation that has not started
NewFrame(t) ==
  [text |-> StrValue(t), pc |-> "call", indices_to_mask |-> {},
   pii_stats |-> EmptyDict, invalid_cpfs |-> EmptyDict,
   has_identifier |-> FALSE, cands |-> <<>>, ents_seen |-> 0, lib_seen |-> 0,
   result |-> <<>>, cur |-> NoCand, accepted |-> {}, matches |-> <<>>,
   ent_label |-> ""]

\* the interpreter resumes the invocation of frame f: its locals but
\* has_identifier
ResumeLocals(f) ==
  /\ text' = f.text
  /\ pc' = f.pc
  /\ indices_to_mask' = f.indices_to_mask
  /\ pii_stats' = f.pii_stats
  /\ invalid_cpfs' = f.invalid_cpfs
  /\ cands' = f.cands
  /\ ents_seen' = f.ents_seen
  /\ lib_seen' = f.lib_seen
  /\ result' = f.result
  /\ cur' = f.cur
  /\ accepted' = f.accepted
  /\ matches' = f.matches
  /\ ent_label' = f.ent_label

\* a thread switch with has_identifier kept on the detector instead of in
\* the frame
SwitchSharingHasIdentifier ==
  /\ threads # <<>>
  /\ \E i \in 1 .. Len(threads) :
       /\ threads' = [threads EXCEPT ![i] = Frame]
       /\ ResumeLocals(threads[i])
  /\ UNCHANGED <<nlp, has_identifier, batch>>

\* a thread switch between two requests served by the global detector: the
\* running invocation is suspended with its locals and another one resumes
\* with its own; the detector is the same object for both
Switch ==
  /\ threads # <<>>
  /\ \E i \in 1 .. Len(threads) :
       /\ threads' = [threads EXCEPT ![i] = Frame]
       /\ ResumeLocals(threads[i])
       /\ has_identifier' = threads[i].has_identifier
  /\ UNCHANGED <<nlp, batch>>

\* the texts of the two requests
ConcTexts ==
  {"laudo medico", "529.982.247-25 laudo medico", "(11) 3456-7890",
   "maria silva", "rg: 1234567", "12.345.678/0001-90 70000-000"}

InitConc ==
  /\ text \in {StrValue(t) : t \in ConcTexts}
  /\ nlp \in {"loaded", "None"}
  /\ pc = "call"
  /\ indices_to_mask = {}
  /\ pii_stats = EmptyDict
  /\ invalid_cpfs = EmptyDict
  /\ has_identifier = FALSE
  /\ cands = <<>>
  /\ ents_seen = 0
  /\ lib_seen = 0
  /\ result = <<>>
  /\ cur = NoCand
  /\ accepted = {}
  /\ matches = <<>>
  /\ ent_label = ""
  /\ threads \in {<<NewFrame(t)>> : t \in ConcTexts}
  /\ batch = <<>>

NextConc == Next \/ Switch

SpecConc == InitConc /\ [][NextConc]_vars

(***************************************************************************)
(* FileProcessor.process_txt over the lines of a file                      *)
(***************************************************************************)
\* the lines a file is made of, and the most lines of a file
FileLines ==
  {"", "  ", "maria silva", " 529.982.247-25", "laudo medico ",
   "ana@x.org (11) 3456-7890", "rg: 1234567", "70000-000"}
MaxLines == 2

Files == UNION {[1 .. n -> FileLines] : n \in 0 .. MaxLines}

\* what self.detector.detect_and_redact(line) returns to the driver: the
\* three values of the `return` of the detector (the number of values does
\* not depend on the answers of the recognizer and of the library, taken
\* here as none)
DetectorReturn(line) == AloneResult(line, {}, {})

RECURSIVE AddCounts(_, _, _)
\* for pii_type, count in pii_stats.items(): pii_stats_total[pii_type] += count
AddCounts(total, stats, keys) ==
  IF keys = {} THEN total
  ELSE LET k == CHOOSE x \in keys : TRUE
       IN  AddCounts((k :> (Get(total, k) + stats[k])) @@ total, stats, keys \ {k})

InitTxt ==
  /\ batch \in {[lines |-> f, idx |-> 0, records |-> <<>>,
                  pii_stats_total |-> EmptyDict, records_with_pii |-> 0,
                  at |-> "loop", returned |-> <<>>] : f \in Files}
  /\ text = StrValue("")
  /\ indices_to_mask = {}
  /\ nlp = "None"
  /\ pc = "process_txt"
  /\ pii_stats = EmptyDict
  /\ invalid_cpfs = EmptyDict
  /\ has_identifier = FALSE
  /\ cands = <<>>
  /\ ents_seen = 0
  /\ lib_seen = 0
  /\ result = <<>>
  /\ cur = NoCand
  /\ accepted = {}
  /\ matches = <<>>
  /\ ent_label = ""
  /\ threads = <<>>

DriverUnchanged ==
  UNCHANGED <<text, nlp, pc, indices_to_mask, pii_stats, invalid_cpfs,
              has_identifier, cands, ents_seen, lib_seen, result, cur,
              accepted, matches, ent_label, threads>>

\* one iteration of `for idx, line in enumerate(lines)`: a blank line is
\* skipped; otherwise the detector is called and its return value unpacked
\* into the two targets anonymized_text, pii_stats, which raises ValueError
\* unless exactly two values were returned
ProcessLine ==
  /\ pc = "process_txt"
  /\ batch.at = "loop"
  /\ batch.idx < Len(batch.lines)
  /\ LET idx   == batch.idx
         line  == Strip(batch.lines[idx + 1])
         value == DetectorReturn(line)
     IN  IF line = ""
         THEN batch' = [batch EXCEPT !.idx = idx + 1]
         ELSE IF Len(value) # 2
              THEN batch' = [batch EXCEPT !.at = "raised"]
              ELSE batch' =
                     [batch EXCEPT
                        !.idx = idx + 1,
                        !.records_with_pii =
                           IF DOMAIN value[2] # {} THEN @ + 1 ELSE @,
                        !.pii_stats_total = AddCounts(@, value[2], DOMAIN value[2]),
                        !.records =
                           Append(@, [record_id      |-> idx,
                                      line_number    |-> idx + 1,
                                      mask_text      |-> line,
                                      text_formatted |-> value[1],
                                      pii_detected   |-> value[2],
                                      has_pii        |-> DOMAIN value[2] # {}])]
  /\ DriverUnchanged

\* the `return` after the loop
ReturnTxt ==
  /\ pc = "process_txt"
  /\ batch.at = "loop"
  /\ batch.idx = Len(batch.lines)
  /\ batch' = [batch EXCEPT
                 !.at = "returned",
                 !.returned = <<[records          |-> batch.records,
                                 total_records    |-> Len(batch.records),
                                 records_with_pii |-> batch.records_with_pii,
                                 pii_stats        |-> batch.pii_stats_total]>>]
  /\ DriverUnchanged

SpecTxt == InitTxt /\ [][ProcessLine \/ ReturnTxt]_vars

(***************************************************************************)
(* ReportService.create_report on the result of a file-processing run      *)
(***************************************************************************)
RECURSIVE SumOver(_, _)
\* sum(pii_stats.get(pii, 0) for pii in keys)
SumOver(stats, keys) ==
  IF keys = {} THEN 0
  ELSE LET k == CHOOSE x \in keys : TRUE
       IN  Get(stats, k) + SumOver(stats, keys \ {k})

critical_pii ==
  {"CPF", "CNPJ", "GENERAL_REGISTRY", "CREDIT_CARD", "SENSITIVE_HEALTH",
   "SENSITIVE_MINOR", "SENSITIVE_SOCIAL", "SENSITIVE_RACE", "SENSITIVE_GENDER"}

high_risk_pii == {"EMAIL", "PHONE", "DATE_BIRTH", "OAB", "MATRICULA", "FULL_ADDRESS"}

\* the test `critical_count / total_records > 0.05` in whole numbers (the
\* quotient is never evaluated with total_records = 0 here: a run without
\* records has no counts)
AboveFivePercent(critical_count, total_records) ==
  20 * critical_count > total_records

\* the risk level without the `or sensitive_detected` of its first test
RiskLevelByRatioOnly(stats, total_records) ==
  LET critical_count == SumOver(stats, critical_pii)
      high_count     == SumOver(stats, high_risk_pii)
      total_pii      == SumOver(stats, DOMAIN stats)
  IN  IF critical_count > 0
      THEN IF AboveFivePercent(critical_count, total_records) THEN "CRÍTICO" ELSE "ALTO"
      ELSE IF high_count > 0 THEN "MÉDIO"
      ELSE IF total_pii > 0 THEN "BAIXO"
      ELSE "MÍNIMO"

\* ReportService._calculate_risk_level(pii_stats, total_records)
_calculate_risk_level(stats, total_records) ==
  LET critical_count == SumOver(stats, critical_pii)
      high_count     == SumOver(stats, high_risk_pii)
      total_pii      == SumOver(stats, DOMAIN stats)
      sensitive_detected ==
        \E k \in {"SENSITIVE_HEALTH", "SENSITIVE_RACE", "SENSITIVE_GENDER",
                   "SENSITIVE_MINOR", "SENSITIVE_SOCIAL"} : k \in DOMAIN stats
  IN  IF critical_count > 0
      THEN IF AboveFivePercent(critical_count, total_records) \/ sensitive_detected
           THEN "CRÍTICO"
           ELSE "ALTO"
      ELSE IF high_count > 0 THEN "MÉDIO"
      ELSE IF total_pii > 0 THEN "BAIXO"
      ELSE "MÍNIMO"

\* the fields of the report that create_report computes from its arguments
\* total_records and pii_statistics
create_report(total_records, pii_statistics) ==
  LET total_pii_detected == SumOver(pii_statistics, DOMAIN pii_statistics)
      records_with_pii   ==
        Cardinality({k \in DOMAIN pii_statistics : pii_statistics[k] > 0})
  IN  [total_records       |-> total_records,
       total_pii_detected  |-> total_pii_detected,
       records_with_pii    |-> records_with_pii,
       records_without_pii |-> total_records - records_with_pii,
       risk_level          |-> _calculate_risk_level(pii_statistics, total_records)]

\* the numbers of records of the runs the report is made for
RecordTotals == {0, 1, 2, 20, 21, 41}

\* the categories of the totals: the identifiers, two sensitive ones, two of
\* contact and address, and the names
ReportCategories ==
  {"CPF", "CNPJ", "GENERAL_REGISTRY", "SENSITIVE_HEALTH", "SENSITIVE_GENDER",
   "EMAIL", "FULL_ADDRESS", "PERSON_NAME"}

\* the result of a file-processing run: the totals per category of at most
\* MaxStatsKeys categories the detector counts, the number of records and
\* the number of records with PII, which is 0 exactly when nothing was
\* counted and at most the number of records and the number of hits
RunResults ==
  {[total_records |-> n, records_with_pii |-> w, pii_stats |-> st] :
     n \in RecordTotals,
     w \in 0 .. 2,
     st \in UNION {[K -> 1 .. MaxCount] :
                     K \in {K \in SUBSET ReportCategories :
                              Cardinality(K) <= MaxStatsKeys}}}

InitReport ==
  /\ batch \in {r \in RunResults :
                  /\ (r.records_with_pii = 0) <=> (DOMAIN r.pii_stats = {})
                  /\ r.records_with_pii <= r.total_records
                  /\ r.records_with_pii <= SumOver(r.pii_stats, DOMAIN r.pii_stats)}
  /\ text = StrValue("")
  /\ indices_to_mask = {}
  /\ nlp = "None"
  /\ pc = "create_report"
  /\ pii_stats = EmptyDict
  /\ invalid_cpfs = EmptyDict
  /\ has_identifier = FALSE
  /\ cands = <<>>
  /\ ents_seen = 0
  /\ lib_seen = 0
  /\ result = <<>>
  /\ cur = NoCand
  /\ accepted = {}
  /\ matches = <<>>
  /\ ent_label = ""
  /\ threads = <<>>

\* upload_file hands total_records and pii_stats of the run to create_report
CreateReport ==
  /\ pc = "create_report"
  /\ pc' = "reported"
  /\ result' = <<create_report(batch.total_records, batch.pii_stats)>>
  /\ UNCHANGED <<text, nlp, indices_to_mask, pii_stats, invalid_cpfs,
                 has_identifier, cands, ents_seen, lib_seen, cur, accepted,
                 matches, ent_label, threads, batch>>

SpecReport == InitReport /\ [][CreateReport]_vars

(***************************************************************************)
(* upload_file: the handler of POST /api/v1/upload, for a text file         *)
(***************************************************************************)
\* what the request carries as the name of the file part
FilenameKinds == {"empty", "no_extension", "pdf", "txt"}

ALLOWED_EXTENSIONS == {"txt", "csv", "xlsx", "xls"}

\* the requests: whether there is a file part, its name, whether its size
\* is above MAX_FILE_SIZE, and its lines
UploadRequests ==
  {[has_file |-> h, filename |-> k, too_large |-> z, lines |-> f] :
     h \in BOOLEAN, k \in FilenameKinds, z \in BOOLEAN, f \in Files}

InitUpload ==
  /\ batch \in {[lines |-> r.lines, idx |-> 0, records |-> <<>>,
                  pii_stats_total |-> EmptyDict, records_with_pii |-> 0,
                  at |-> "loop", returned |-> <<>>,
                  request |-> [has_file |-> r.has_file, filename |-> r.filename,
                               too_large |-> r.too_large],
                  step |-> "validate", temp_file |-> FALSE, stored |-> {},
                  report |-> <<>>, response |-> <<>>] : r \in UploadRequests}
  /\ text = StrValue("")
  /\ indices_to_mask = {}
  /\ nlp = "None"
  /\ pc = "upload"
  /\ pii_stats = EmptyDict
  /\ invalid_cpfs = EmptyDict
  /\ has_identifier = FALSE
  /\ cands = <<>>
  /\ ents_seen = 0
  /\ lib_seen = 0
  /\ result = <<>>
  /\ cur = NoCand
  /\ accepted = {}
  /\ matches = <<>>
  /\ ent_label = ""
  /\ threads = <<>>

\* return jsonify({'success': ...}), status
Respond(success, status) ==
  batch' = [batch EXCEPT !.step = "responded",
                         !.response = <<[success |-> success, status |-> status]>>]

\* the checks before the file is saved; a FileValidationError is answered
\* by the first except clause
ValidateRequest ==
  /\ pc = "upload"
  /\ batch.step = "validate"
  /\ IF \/ ~batch.request.has_file
        \/ batch.request.filename \in {"empty", "no_extension"}
        \/ batch.request.filename \notin ALLOWED_EXTENSIONS
     THEN Respond(FALSE, 400)
     ELSE batch' = [batch EXCEPT !.step = "save"]
  /\ DriverUnchanged

\* file.save(temp_path)
SaveTemp ==
  /\ pc = "upload"
  /\ batch.step = "save"
  /\ batch' = [batch EXCEPT !.step = "size", !.temp_file = TRUE]
  /\ DriverUnchanged

\* validate_file_size raises FileValidationError for a file above the limit
ValidateSize ==
  /\ pc = "upload"
  /\ batch.step = "size"
  /\ IF batch.request.too_large
     THEN Respond(FALSE, 400)
     ELSE batch' = [batch EXCEPT !.step = "process"]
  /\ DriverUnchanged

\* file_processor.process_txt(temp_path, process_uuid) is entered
CallProcessTxt ==
  /\ pc = "upload"
  /\ batch.step = "process"
  /\ pc' = "process_txt"
  /\ UNCHANGED <<text, nlp, indices_to_mask, pii_stats, invalid_cpfs,
                 has_identifier, cands, ents_seen, lib_seen, result, cur,
                 accepted, matches, ent_label, threads, batch>>

\* the file cannot be read as UTF-8 text: open/readlines raises, which the
\* last except clause answers
ReadRaises ==
  /\ pc = "upload"
  /\ batch.step = "process"
  /\ Respond(FALSE, 500)
  /\ DriverUnchanged

\* process_txt raised: no handler but the last except clause takes it
ProcessRaised ==
  /\ pc = "process_txt"
  /\ batch.at = "raised"
  /\ batch.step = "process"
  /\ pc' = "upload"
  /\ Respond(FALSE, 500)
  /\ UNCHANGED <<text, nlp, indices_to_mask, pii_stats, invalid_cpfs,
                 has_identifier, cands, ents_seen, lib_seen, result, cur,
                 accepted, matches, ent_label, threads>>

\* process_txt returned its result
ProcessReturned ==
  /\ pc = "process_txt"
  /\ batch.at = "returned"
  /\ batch.step = "process"
  /\ pc' = "upload"
  /\ batch' = [batch EXCEPT !.step = "save_batch"]
  /\ UNCHANGED <<text, nlp, indices_to_mask, pii_stats, invalid_cpfs,
                 has_identifier, cands, ents_seen, lib_seen, result, cur,
                 accepted, matches, ent_label, threads>>

\* a save of MongoService that writes a lot of records: nothing is written
\* for no records; otherwise the write succeeds or raises, the exception is
\* caught inside and False returned, and the caller does not look at the
\* returned value
SaveRecords(step, next, what) ==
  /\ pc = "upload"
  /\ batch.step = step
  /\ \E written \in BOOLEAN :
       batch' = [batch EXCEPT
                   !.step = next,
                   !.stored = IF batch.returned[1].records # <<>> /\ written
                              THEN @ \cup {what} ELSE @]
  /\ DriverUnchanged

\* mongo_service.save_batch(result['records'])
SaveBatch == SaveRecords("save_batch", "save_access_info", "records")

\* mongo_service.save_access_info_batch(access_info_records)
SaveAccessInfoBatch == SaveRecords("save_access_info", "create_report", "access_info")

\* report_data = report_service.create_report(...)
GenerateReport ==
  /\ pc = "upload"
  /\ batch.step = "create_report"
  /\ batch' = [batch EXCEPT
                 !.step = "save_report",
                 !.report = <<create_report(batch.returned[1].total_records,
                                            batch.returned[1].pii_stats)>>]
  /\ DriverUnchanged

\* mongo_service.save_report(report_data): insert_one succeeds or raises,
\* the exception is caught inside and False returned, which the caller does
\* not look at
SaveReport ==
  /\ pc = "upload"
  /\ batch.step = "save_report"
  /\ \E written \in BOOLEAN :
       batch' = [batch EXCEPT
                   !.step = "remove",
                   !.stored = IF written THEN @ \cup {"report"} ELSE @]
  /\ DriverUnchanged

\* os.remove(temp_path) and the success response
RemoveTempAndRespond ==
  /\ pc = "upload"
  /\ batch.step = "remove"
  /\ batch' = [batch EXCEPT
                 !.step = "responded",
                 !.temp_file = FALSE,
                 !.response = <<[success |-> TRUE, status |-> 200]>>]
  /\ DriverUnchanged

NextUpload ==
  \/ ValidateRequest
  \/ SaveTemp
  \/ ValidateSize
  \/ CallProcessTxt
  \/ ReadRaises
  \/ ProcessLine
  \/ ReturnTxt
  \/ ProcessRaised
  \/ ProcessReturned
  \/ SaveBatch
  \/ SaveAccessInfoBatch
  \/ GenerateReport
  \/ SaveReport
  \/ RemoveTempAndRespond

SpecUpload == InitUpload /\ [][NextUpload]_vars

(***************************************************************************)
(* get_all_requests: the paginated listing of the anonymized requests      *)
(***************************************************************************)
\* the most records in the collection, and the largest limit and skip asked
MaxTotal == 6
MaxLimit == 4
MaxSkip == 5

\* the queries: what count_access_requests answers and the two parameters
ListQueries ==
  {[total |-> t, limit |-> l, skip |-> k, response |-> <<>>] :
     t \in 0 .. MaxTotal, l \in 0 .. MaxLimit, k \in 0 .. MaxSkip}

\* (skip // limit) + 1 if limit > 0 else 1
page(skip, limit) == IF limit > 0 THEN (skip \div limit) + 1 ELSE 1

\* (total // limit) + 1 if limit > 0 else 1
total_pages(total, limit) == IF limit > 0 THEN (total \div limit) + 1 ELSE 1

InitList ==
  /\ batch \in ListQueries
  /\ text = StrValue("")
  /\ indices_to_mask = {}
  /\ nlp = "None"
  /\ pc = "get_all_requests"
  /\ pii_stats = EmptyDict
  /\ invalid_cpfs = EmptyDict
  /\ has_identifier = FALSE
  /\ cands = <<>>
  /\ ents_seen = 0
  /\ lib_seen = 0
  /\ result = <<>>
  /\ cur = NoCand
  /\ accepted = {}
  /\ matches = <<>>
  /\ ent_label = ""
  /\ threads = <<>>

\* the handler answers with the page data
GetAllRequests ==
  /\ pc = "get_all_requests"
  /\ pc' = "listed"
  /\ batch' = [batch EXCEPT
                 !.response = <<[total       |-> batch.total,
                                 limit       |-> batch.limit,
                                 skip        |-> batch.skip,
                                 page        |-> page(batch.skip, batch.limit),
                                 total_pages |-> total_pages(batch.total, batch.limit)]>>]
  /\ UNCHANGED <<text, nlp, indices_to_mask, pii_stats, invalid_cpfs,
                 has_identifier, cands, ents_seen, lib_seen, result, cur,
                 accepted, matches, ent_label, threads>>

SpecList == InitList /\ [][GetAllRequests]_vars

(***************************************************************************)
(* C1                                                                      *)
(***************************************************************************)
\* C1: detect_and_redact called with null/NaN or with any value that is not a
\* string never raises, and returns the value unchanged with two empty maps
C1_NonStringPassesThrough ==
  text.kind # "str" =>
    /\ pc \in {"call", "done"}
    /\ pc = "done" => result = <<text, EmptyDict, EmptyDict>>

(***************************************************************************)
(* C2                                                                      *)
(***************************************************************************)
\* C2: the rendered text has the length of the text, and at every offset i it
\* holds 'x' when i is in the mask and text[i] is alphanumeric, text[i]
\* otherwise
C2_RenderKeepsLengthAndPunctuation ==
  pc = "done" =>
    LET out == result[1].s
    IN  /\ Len(out) = Len(text.s)
        /\ \A i \in 0 .. (Len(text.s) - 1) :
             CharAt(out, i) = IF i \in indices_to_mask /\ CharAt(text.s, i) \in AlnumChars
                              THEN "x"
                              ELSE CharAt(text.s, i)

\* a rendered text with a masked letter or digit, a masked character that is
\* neither, and an unmasked letter or digit
C2_Witness ==
  /\ pc = "done"
  /\ \E i, j, k \in 0 .. (Len(text.s) - 1) :
       /\ i \in indices_to_mask /\ CharAt(text.s, i) \in AlnumChars
       /\ CharAt(result[1].s, i) = "x"
       /\ j \in indices_to_mask /\ CharAt(text.s, j) \notin AlnumChars
       /\ k \notin indices_to_mask /\ CharAt(text.s, k) \in AlnumChars \ {"x"}

(***************************************************************************)
(* C3                                                                      *)
(***************************************************************************)
\* C3: every candidate span a detector produces is dropped, the mask and the
\* counts unchanged, when its range intersects the mask built so far, and is
\* otherwise added whole to the mask with its category count incremented by
\* exactly one
C3_OverlapDropsElseAddsAndCounts ==
  [][cur' # NoCand =>
       IF Range(cur'.s, cur'.e) \cap indices_to_mask # {}
       THEN indices_to_mask' = indices_to_mask /\ pii_stats' = pii_stats
       ELSE /\ indices_to_mask' = indices_to_mask \cup Range(cur'.s, cur'.e)
            /\ pii_stats' = Inc(pii_stats, cur'.key)]_vars

(***************************************************************************)
(* C4                                                                      *)
(***************************************************************************)
\* the categories that identify a person
IdentifyingKeys == {"CPF", "GENERAL_REGISTRY", "PERSON_NAME"}
SensitiveKeys == {SENSITIVE_TYPES[i] : i \in 1 .. Len(SENSITIVE_TYPES)}
IdentifierFound == IdentifyingKeys \cap DOMAIN pii_stats # {}

\* the number of matches of the keywords of one sensitive category in t
SensitiveMatches(t, sens_type) ==
  Len(KeywordCands(LowerStr(t), sensitive_keywords[sens_type], 1, sens_type))

\* C4: when no identifying category is found in a text, no SENSITIVE_* key is
\* counted and the mask holds only the spans of the other detectors; when one
\* is found anywhere in the text, every sensitive-phrase match is counted
\* under its category
C4_SensitiveGating ==
  (pc = "done" /\ text.kind = "str") =>
    IF IdentifierFound
    THEN \A k \in SensitiveKeys : Get(result[2], k) = SensitiveMatches(text.s, k)
    ELSE /\ SensitiveKeys \cap DOMAIN result[2] = {}
         /\ \A c \in accepted : c.key \notin SensitiveKeys
         /\ indices_to_mask = UNION {Range(c.s, c.e) : c \in accepted}

\* a sensitive phrase counted because of a tax ID that follows it
C4_Witness ==
  /\ pc = "done"
  /\ \E c \in accepted, d \in accepted :
       /\ c.key \in SensitiveKeys
       /\ d.key = "CPF"
       /\ c.e <= d.s
       /\ Get(result[2], c.key) >= 1

(***************************************************************************)
(* C5                                                                      *)
(***************************************************************************)
\* the characters ddd.ddd.ddd-dd stand at offset p of t
FormattedShapeAt(t, p) ==
  /\ p + 14 <= Len(t)
  /\ \A k \in {0, 1, 2, 4, 5, 6, 8, 9, 10, 12, 13} : CharAt(t, p + k) \in Digits
  /\ CharAt(t, p + 3) = "." /\ CharAt(t, p + 7) = "." /\ CharAt(t, p + 11) = "-"

\* a run of exactly 11 digits starts at offset p of t
BareRunAt(t, p) ==
  /\ p + 11 <= Len(t)
  /\ \A k \in 0 .. 10 : CharAt(t, p + k) \in Digits
  /\ p = 0 \/ CharAt(t, p - 1) \notin Digits
  /\ p + 11 = Len(t) \/ CharAt(t, p + 11) \notin Digits

\* no letter, digit or underscore stands directly before offset a or directly
\* after offset b - 1
Delimited(t, a, b) ==
  /\ a = 0 \/ CharAt(t, a - 1) \notin WordChars
  /\ b = Len(t) \/ CharAt(t, b) \notin WordChars

\* the tax-ID detector reported the span a .. b-1
CpfAccepted(a, b) == \E c \in accepted : c.key = "CPF" /\ c.s = a /\ c.e = b

\* C5 as stated: a formatted tax ID is detected and counted whatever
\* surrounds it; a bare run of exactly 11 digits is detected as a tax ID only
\* with a tax-ID keyword in the 50-character window around its start, and is
\* otherwise not counted as a tax ID and left untouched
C5_AsStated ==
  (pc = "done" /\ text.kind = "str") =>
    \A p \in 0 .. (Len(text.s) - 1) :
      /\ FormattedShapeAt(text.s, p) => CpfAccepted(p, p + 14)
      /\ BareRunAt(text.s, p) =>
            IF _has_cpf_context(text.s, p)
            THEN CpfAccepted(p, p + 11)
            ELSE /\ ~ CpfAccepted(p, p + 11)
                 /\ Range(p, p + 11) \cap indices_to_mask = {}

\* C5 amended: a formatted tax ID delimited by word boundaries is always
\* detected and counted as a tax ID; a bare run of exactly 11 digits delimited
\* by word boundaries is detected as a tax ID exactly when a tax-ID keyword
\* occurs in the 50-character window around its start; the tax-ID detector
\* reports nothing else, and the tax-ID count is the number of these spans
C5_FormattedAlwaysBareOnlyInContext ==
  (pc = "done" /\ text.kind = "str") =>
    /\ \A p \in 0 .. (Len(text.s) - 1) :
         /\ (FormattedShapeAt(text.s, p) /\ Delimited(text.s, p, p + 14))
               => CpfAccepted(p, p + 14)
         /\ (BareRunAt(text.s, p) /\ Delimited(text.s, p, p + 11))
               => (CpfAccepted(p, p + 11) <=> _has_cpf_context(text.s, p))
    /\ \A c \in accepted :
         c.key = "CPF" =>
           \/ /\ c.e = c.s + 14
              /\ FormattedShapeAt(text.s, c.s)
              /\ Delimited(text.s, c.s, c.e)
           \/ /\ c.e = c.s + 11
              /\ BareRunAt(text.s, c.s)
              /\ Delimited(text.s, c.s, c.e)
              /\ _has_cpf_context(text.s, c.s)
    /\ Get(result[2], "CPF") = Cardinality({c \in accepted : c.key = "CPF"})

\* a bare run detected as a tax ID whose keyword lies at the far end of the
\* window
C5_Witness ==
  /\ pc = "done"
  /\ text.kind = "str"
  /\ \E p \in 0 .. (Len(text.s) - 1) :
       /\ p >= CPF_WINDOW
       /\ BareRunAt(text.s, p)
       /\ CpfAccepted(p, p + 11)

(***************************************************************************)
(* C6                                                                      *)
(***************************************************************************)
\* the tax-ID spans reported in this call, and those whose digits fail the
\* check-digit validation
CpfSpans == {c \in accepted : c.key = "CPF"}
FailedCpfSpans ==
  {c \in CpfSpans : ~ _validate_cpf_digit(OnlyDigits(Slice(text.s, c.s, c.e)))}

\* C6: a detected tax-ID span that fails validation is still masked and
\* counted; invalid_counts holds only the tax-ID invalid counter, equal to
\* the number of detected tax-ID spans that failed validation
C6_InvalidStillMaskedAndCounted ==
  (pc = "done" /\ text.kind = "str") =>
    /\ \A i \in 1 .. Len(_detect_cpf(text.s)) : _detect_cpf(text.s)[i] \in CpfSpans
    /\ \A c \in CpfSpans : Range(c.s, c.e) \subseteq indices_to_mask
    /\ Get(result[2], "CPF") = Cardinality(CpfSpans)
    /\ DOMAIN result[3] \subseteq {"CPF_INVALID"}
    /\ Get(result[3], "CPF_INVALID") = Cardinality(FailedCpfSpans)
    /\ ("CPF_INVALID" \in DOMAIN result[3]) <=> (FailedCpfSpans # {})
    /\ Get(result[3], "CPF_INVALID") <= Get(result[2], "CPF")

\* a record with a tax ID that validates and one that does not
C6_Witness ==
  /\ pc = "done"
  /\ text.kind = "str"
  /\ FailedCpfSpans # {}
  /\ CpfSpans \ FailedCpfSpans # {}
  /\ Get(result[3], "CPF_INVALID") = 1
  /\ \A c \in FailedCpfSpans :
       \A i \in Range(c.s, c.e) :
         CharAt(text.s, i) \in Digits => CharAt(result[1].s, i) = "x"

(***************************************************************************)
(* C7                                                                      *)
(***************************************************************************)
RECURSIVE SumTo(_, _, _)
\* sum_{i=0..n-1} digit[i] * (w - i)
SumTo(s, n, w) ==
  IF n = 0 THEN 0
  ELSE SumTo(s, n - 1, w) + DigitVal(CharAt(s, n - 1)) * (w - (n - 1))

\* d1 = ((sum_{i=0..8} digit[i]*(10-i))*10 mod 11) mod 10, d2 likewise on
\* ten digits with the weights 11-i
CheckDigit1(s) == ((SumTo(s, 9, 10) * 10) % 11) % 10
CheckDigit2(s) == ((SumTo(s, 10, 11) * 10) % 11) % 10
CheckDigitsMatch(s) ==
  /\ CheckDigit1(s) = DigitVal(CharAt(s, 9))
  /\ CheckDigit2(s) = DigitVal(CharAt(s, 10))

ElevenDigits(s) == Len(s) = 11 /\ \A i \in 0 .. 10 : CharAt(s, i) \in Digits
OneRepeatedDigit(s) == \A i \in 0 .. 10 : CharAt(s, i) = CharAt(s, 0)

\* C7 as stated: for all 11-digit strings the validator returns true if and
\* only if both computed check digits equal digit[9] and digit[10]
C7_AsStated ==
  (pc = "validated" /\ ElevenDigits(text.s)) =>
    (result[1] <=> CheckDigitsMatch(text.s))

\* C7 amended: for all 11-digit strings the validator returns true if and only
\* if the digits are not all identical and both computed check digits equal
\* digit[9] and digit[10]
C7_ValidIffCheckDigitsAndNotRepeated ==
  (pc = "validated" /\ ElevenDigits(text.s)) =>
    (result[1] <=> (~ OneRepeatedDigit(text.s) /\ CheckDigitsMatch(text.s)))

\* an 11-digit string of one repeated digit, whose check digits match, has
\* been rejected
C7_Witness ==
  /\ pc = "validated"
  /\ ElevenDigits(text.s)
  /\ OneRepeatedDigit(text.s)
  /\ CheckDigitsMatch(text.s)
  /\ result = <<FALSE>>

(***************************************************************************)
(* C8                                                                      *)
(***************************************************************************)
\* s differs from the known valid tax ID in exactly one digit
SingleDigitMutation(s) ==
  /\ ElevenDigits(s)
  /\ Cardinality({i \in 0 .. 10 : CharAt(s, i) # CharAt(KnownValidCpf, i)}) = 1

\* C8: 52998224725 validates true and every string that differs from it in
\* exactly one digit validates false
C8_KnownValidAndMutations ==
  pc = "validated" =>
    /\ text.s = KnownValidCpf => result = <<TRUE>>
    /\ SingleDigitMutation(text.s) => result = <<FALSE>>

\* a mutation of the last digit alone has been rejected
C8_Witness ==
  /\ pc = "validated"
  /\ SingleDigitMutation(text.s)
  /\ CharAt(text.s, 10) # CharAt(KnownValidCpf, 10)
  /\ result = <<FALSE>>

(***************************************************************************)
(* C9                                                                      *)
(***************************************************************************)
\* C9: when the recognizer is unavailable or raises, on the call or while its
\* entities are consumed, the named-entity detector has contributed nothing
\* to the mask, to the counts or to has_identifier, nothing is raised, and
\* the result is that of a run in which the recognizer returned no entities
C9_RecognizerFailureContributesNothing ==
  /\ (pc = "names_except" \/ (nlp = "None" /\ pc \notin {"call", "cpf"})) =>
        /\ "PERSON_NAME" \notin DOMAIN pii_stats
        /\ \A c \in accepted : c.key # "PERSON_NAME"
  /\ pc = "names_except" =>
        /\ indices_to_mask = UNION {Range(c.s, c.e) : c \in CpfSpans}
        /\ has_identifier = (CpfSpans # {})
  /\ text.kind = "str" => pc # "raised"

(***************************************************************************)
(* C10                                                                     *)
(***************************************************************************)
\* the spans a and b share an offset
Overlap(a, b) == Range(a.s, a.e) \cap Range(b.s, b.e) # {}

\* C10: the legal-process detector runs before the phone detector: when a
\* legal-process match and a phone match overlap, the legal-process span is
\* the one accepted into the mask and no PHONE is recorded on it
C10_LegalProcessBeforePhone ==
  (pc = "done" /\ text.kind = "str") =>
    \A i \in 1 .. Len(SeiCands(text.s)) :
      LET m == SeiCands(text.s)[i]
      IN  (\E j \in 1 .. Len(PhoneCands(text.s)) : Overlap(m, PhoneCands(text.s)[j]))
            => /\ m \in accepted
               /\ \A c \in accepted : c.key = "PHONE" => ~ Overlap(m, c)

(***************************************************************************)
(* C11                                                                     *)
(***************************************************************************)
PhoneSpans == {c \in accepted : c.key = "PHONE"}

\* C11: an 11-digit run accepted as a tax ID is counted once under the tax-ID
\* category and never also under PHONE, whichever phone matcher (the regex
\* patterns or the phone-number library) matches those offsets
C11_TaxIdWinsOverPhone ==
  /\ \A c \in CpfSpans :
       /\ \A d \in PhoneSpans : ~ Overlap(c, d)
       /\ \A d \in CpfSpans \ {c} : ~ Overlap(c, d)
  /\ pc \notin {"call", "validate", "validated"} =>
       /\ Get(pii_stats, "CPF") = Cardinality(CpfSpans)
       /\ Get(pii_stats, "PHONE") = Cardinality(PhoneSpans)

\* a phone pattern has matched inside a bare 11-digit run accepted as a tax
\* ID, and the match was dropped
C11_Witness ==
  /\ pc = "phone"
  /\ cur.key = "PHONE"
  /\ cur \notin accepted
  /\ \E c \in CpfSpans : c.e = c.s + 11 /\ Overlap(c, cur)
  /\ "PHONE" \notin DOMAIN pii_stats

(***************************************************************************)
(* C12                                                                     *)
(***************************************************************************)
\* the whitespace-separated tokens of the span a .. b-1 of t after removing
\* punctuation and lower-casing
NameTokens(t, a, b) == Split(RemovePunct(LowerStr(Strip(Slice(t, a, b)))))

InReferenceSets(tok) == tok \in COMMON_NAMES \cup COMMON_SURNAMES

\* an honorific (dr, dra, sr, sra, with or without a period, then a blank)
\* occurs in the 5 characters immediately before offset a
HonorificBefore(t, a) ==
  Search(honorific_pattern, LowerStr(Slice(t, Max(0, a - 5), a)))

\* the conditions under which a person entity may be accepted
NamePolicy(t, a, b) ==
  /\ Len(NameTokens(t, a, b)) >= 2
  /\ \/ \E i \in 1 .. Len(NameTokens(t, a, b)) : InReferenceSets(NameTokens(t, a, b)[i])
     \/ HonorificBefore(t, a)

\* C12: an entity changes the mask or the counts only if it is labelled as a
\* person, has at least 2 tokens and has a token in the reference sets or an
\* honorific within the 5 characters before it, and it is then added as
\* PERSON_NAME; an entity with another label or failing these conditions
\* changes neither the mask nor the counts
C12_OnlyPolicyNamesAccepted ==
  [][(pc = "names" /\ ents_seen' = ents_seen + 1) =>
       \/ /\ indices_to_mask' = indices_to_mask
          /\ pii_stats' = pii_stats
       \/ /\ ent_label' = "PER"
          /\ cur'.key = "PERSON_NAME"
          /\ NamePolicy(text.s, cur'.s, cur'.e)
          /\ indices_to_mask' = indices_to_mask \cup Range(cur'.s, cur'.e)
          /\ pii_stats' = Inc(pii_stats, "PERSON_NAME")]_vars

\* a person entity accepted on its honorific alone: none of its tokens is in
\* the reference sets
C12_Witness ==
  /\ pc = "names"
  /\ ent_label = "PER"
  /\ cur.key = "PERSON_NAME"
  /\ cur \in accepted
  /\ HonorificBefore(text.s, cur.s)
  /\ \A i \in 1 .. Len(NameTokens(text.s, cur.s, cur.e)) :
       ~ InReferenceSets(NameTokens(text.s, cur.s, cur.e)[i])

(***************************************************************************)
(* C13                                                                     *)
(***************************************************************************)
\* the organizational suffixes, in lower case
OrgSuffixes == {"ltda", "advogados", "associados"}

HasOrgSuffix(t, a, b) ==
  \E i \in 1 .. Len(NameTokens(t, a, b)) : NameTokens(t, a, b)[i] \in OrgSuffixes

\* C13: a person-entity span that contains an organizational suffix is
\* neither masked nor counted as PERSON_NAME, even with a token in the
\* reference sets or an honorific before it
C13_OrgSuffixRejected ==
  \A c \in accepted :
    c.key = "PERSON_NAME" => ~ HasOrgSuffix(text.s, c.s, c.e)

(***************************************************************************)
(* C14                                                                     *)
(***************************************************************************)
\* C14: a phone-shaped match, of the phone patterns or of the phone-number
\* library, is neither masked nor counted as PHONE when a strict identifier
\* keyword (RG, CNH, matricula, ...) occurs within the 30-character context
\* window around its start
C14_PhoneNearIdentifierKeywordRejected ==
  \A c \in PhoneSpans : ~ _is_near_pii_keyword(text.s, c.s)

(***************************************************************************)
(* C15                                                                     *)
(***************************************************************************)
\* the descriptions in a list of reasons
ReasonSet(r) == {r.reasons[i] : i \in 1 .. Len(r.reasons)}

\* the descriptions of the categories of a set that are counted
Descriptions(categories) ==
  {get_description(k) : k \in categories \cap DOMAIN pii_stats}

\* the partition as the claim states it
StatedCritical ==
  {"CPF", "GENERAL_REGISTRY", "SENSITIVE_HEALTH", "SENSITIVE_MINOR",
   "SENSITIVE_SOCIAL", "SENSITIVE_RACE", "SENSITIVE_GENDER"}
StatedModerate == {"EMAIL", "PHONE", "FULL_ADDRESS", "CNPJ", "CEP"}

\* C15 as stated: a record receives exactly one level: CRITICAL when a category
\* among tax ID, registry numbers and the sensitive ones is counted, with
\* exactly their descriptions as reasons; otherwise MODERATE when a category
\* among email, phone, address, company ID and postal code is counted;
\* otherwise PUBLIC
C15_AsStated ==
  pc = "classified" =>
    /\ Len(result) = 1
    /\ IF StatedCritical \cap DOMAIN pii_stats # {}
       THEN /\ result[1].level = "CRÍTICO"
            /\ ReasonSet(result[1]) = Descriptions(StatedCritical)
       ELSE IF StatedModerate \cap DOMAIN pii_stats # {}
            THEN result[1].level = "MODERADO"
            ELSE result[1].level = "PÚBLICO"

\* the partition the classification uses
CriticalSet == StatedCritical \cup {"CNPJ"}
ModerateSet == {"EMAIL", "PHONE", "FULL_ADDRESS", "PERSON_NAME"}

\* C15: a record receives exactly one level: CRITICAL when a category among
\* tax ID, company ID, registry numbers and the sensitive ones is counted,
\* whatever else is counted, with exactly the descriptions of those categories
\* as reasons, each once; otherwise MODERATE when a category among email,
\* phone, address and person name is counted, with exactly their
\* descriptions as reasons; otherwise PUBLIC with no reason
C15_RiskLevelOfRecord ==
  pc = "classified" =>
    /\ Len(result) = 1
    /\ IF CriticalSet \cap DOMAIN pii_stats # {}
       THEN /\ result[1].level = "CRÍTICO"
            /\ ReasonSet(result[1]) = Descriptions(CriticalSet)
            /\ Len(result[1].reasons) = Cardinality(CriticalSet \cap DOMAIN pii_stats)
       ELSE IF ModerateSet \cap DOMAIN pii_stats # {}
            THEN /\ result[1].level = "MODERADO"
                 /\ ReasonSet(result[1]) = Descriptions(ModerateSet)
                 /\ Len(result[1].reasons) = Cardinality(ModerateSet \cap DOMAIN pii_stats)
            ELSE /\ result[1].level = "PÚBLICO"
                 /\ result[1].reasons = <<>>

C15_Witness ==
  /\ pc = "classified"
  /\ {"CNPJ", "PHONE", "EMAIL"} = DOMAIN pii_stats
  /\ Len(result) = 1
  /\ result[1].level = "CRÍTICO"
  /\ result[1].reasons = <<"Cadastro Nacional de Pessoa Jurídica">>

(***************************************************************************)
(* C16                                                                     *)
(***************************************************************************)
\* the accepted spans the postal-code pattern matched (the address pattern
\* needs a leading street word, so it never matches the same range)
PostalSpans ==
  {c \in accepted :
     /\ c.key = stats_key("CEP")
     /\ \E i \in 1 .. Len(FindIter(CEP_pattern, text.s)) :
          FindIter(CEP_pattern, text.s)[i] = <<c.s, c.e>>}

\* the accepted spans of a category, the postal-code spans being those of "CEP"
SpansOfCategory(k) ==
  IF k = "CEP" THEN PostalSpans
  ELSE {c \in accepted : c.key = k} \ PostalSpans

\* C16 as stated: every key of the returned counts is a declared category and
\* the count of every category is the number of its accepted spans, each
\* accepted postal-code span being counted under the postal-code category
C16_AsStated ==
  (pc = "done" /\ Len(result) = 3 /\ text.kind = "str") =>
    /\ DOMAIN result[2] \subseteq PII_TYPES
    /\ \A k \in PII_TYPES : Get(result[2], k) = Cardinality(SpansOfCategory(k))

\* C16: every key of the returned counts is a declared category other than
\* the postal-code one, and the count of every category is the number of
\* accepted spans counted under it, each accepted postal-code span being
\* counted under the address category
C16_CountsAreAcceptedSpans ==
  (pc = "done" /\ Len(result) = 3 /\ text.kind = "str") =>
    /\ DOMAIN result[2] \subseteq PII_TYPES \ {"CEP"}
    /\ \A k \in PII_TYPES : Get(result[2], k) = Cardinality({c \in accepted : c.key = k})

C16_Witness ==
  /\ pc = "done"
  /\ Len(result) = 3
  /\ Cardinality(PostalSpans) = 1
  /\ Get(result[2], "FULL_ADDRESS") = 2

(***************************************************************************)
(* C17                                                                     *)
(***************************************************************************)
\* the result the invocation of a finished frame returns when run alone with
\* the same answers of the recognizer and of the phone-number library
AloneOf(f) ==
  AloneResult(f.text.s,
              {c \in f.accepted : c.key = "PERSON_NAME"},
              {c \in f.accepted : c.key = "PHONE"})

\* the running invocation and the suspended ones
Invocations == <<Frame>> \o threads

\* C17: an invocation never modifies a field of the shared detector (self.nlp
\* is the only one that varies between detectors), and once the invocations of
\* all threads have returned, however their steps interleaved, each has
\* returned exactly the result it returns when run alone on its text
C17_StatelessAcrossInvocations ==
  /\ [][nlp' = nlp]_vars
  /\ []((\A i \in 1 .. Len(Invocations) : Invocations[i].pc = "done")
          => \A i \in 1 .. Len(Invocations) :
               Invocations[i].result = AloneOf(Invocations[i]))

\* both invocations have returned, the one without identifier was suspended
\* while the other found a tax ID and counted its sensitive phrase
C17_Witness ==
  /\ threads # <<>>
  /\ pc = "done"
  /\ threads[1].pc = "done"
  /\ text.s = "laudo medico"
  /\ result[2] = EmptyDict
  /\ threads[1].text.s = "529.982.247-25 laudo medico"
  /\ Get(threads[1].result[2], "SENSITIVE_HEALTH") = 1

(***************************************************************************)
(* C18                                                                     *)
(***************************************************************************)
\* the non-blank lines of the file, stripped, in order
NonBlankLines ==
  LET stripped == [i \in 1 .. Len(batch.lines) |-> Strip(batch.lines[i])]
      nonblank(l) == l # ""
  IN  SelectSeq(stripped, nonblank)

\* C18: process_txt never raises, and it returns total_records = the number
\* of non-blank lines with one record per non-blank line, whose
\* text_formatted is the redacted text and whose pii_detected is the
\* category counts detect_and_redact returns for that line
C18_DriverConsumesDetectorResult ==
  /\ batch.at # "raised"
  /\ batch.at = "returned" =>
       LET out == batch.returned[1]
       IN  /\ out.total_records = Len(NonBlankLines)
           /\ Len(out.records) = Len(NonBlankLines)
           /\ \A i \in 1 .. Len(out.records) :
                /\ out.records[i].text_formatted = DetectorReturn(NonBlankLines[i])[1]
                /\ out.records[i].pii_detected = DetectorReturn(NonBlankLines[i])[2]

(***************************************************************************)
(* C19                                                                     *)
(***************************************************************************)
\* the phone loop over the patterns has just counted the span cur
RegexPhoneCounted == pc = "phone" /\ cur.key = "PHONE" /\ cur \in accepted

\* the offset of the first digit of the span c
FirstDigit(c) ==
  CHOOSE i \in c.s .. (c.e - 1) :
    /\ CharAt(text.s, i) \in Digits
    /\ \A j \in c.s .. (i - 1) : CharAt(text.s, j) \notin Digits

\* C19 as stated: no span the phone patterns count as PHONE has digits that
\* begin with a zero
C19_AsStated ==
  RegexPhoneCounted => CharAt(text.s, FirstDigit(cur)) # "0"

\* the span begins with two digits in 1-9, the area code
AreaCodePrefix(c) ==
  /\ FirstDigit(c) + 1 < c.e
  /\ CharAt(text.s, FirstDigit(c)) \in Digits \ {"0"}
  /\ CharAt(text.s, FirstDigit(c) + 1) \in Digits \ {"0"}

\* the span is a phone keyword, separators, then 8 to 12 digits
KeywordIntroduced(c) ==
  LET span == LowerStr(Slice(text.s, c.s, c.e))
  IN  \E k \in {"tel", "cel", "zap", "whatsapp", "contato", "fone"}, n \in 8 .. 12 :
        /\ Len(span) > Len(k) + n
        /\ Slice(span, 0, Len(k)) = k
        /\ \A i \in Len(k) .. (Len(span) - n - 1) :
             CharAt(span, i) \in {":", "."} \cup Spaces
        /\ \A i \in (Len(span) - n) .. (Len(span) - 1) : CharAt(span, i) \in Digits

\* C19: every span the phone patterns count as PHONE either begins with an
\* area code of two digits in 1-9 or is introduced by a phone keyword (tel,
\* cel, zap, whatsapp, contato, fone) followed by 8 to 12 digits; only a
\* keyword-introduced span has digits that begin with a zero
C19_AreaCodeOrKeyword ==
  RegexPhoneCounted =>
    /\ AreaCodePrefix(cur) \/ KeywordIntroduced(cur)
    /\ CharAt(text.s, FirstDigit(cur)) = "0" => KeywordIntroduced(cur)

C19_Witness ==
  /\ RegexPhoneCounted
  /\ KeywordIntroduced(cur)
  /\ CharAt(text.s, FirstDigit(cur)) = "0"
  /\ Get(pii_stats, "PHONE") = 1

(***************************************************************************)
(* C20                                                                     *)
(***************************************************************************)
\* the accepted spans of the identifying categories
IdentifyingSpans == {c \in accepted : c.key \in IdentifyingKeys}

\* C20: has_identifier is false when the invocation starts, becomes true
\* exactly in a step that accepts a tax-ID, person-name or registry span, is
\* never reset and is never set by a step that accepts a span of another
\* category; so it is true iff such a span was accepted, in particular when
\* the sensitive scanner runs
C20_HasIdentifierIffIdentifyingSpan ==
  /\ [](pc = "call" => ~ has_identifier)
  /\ [](has_identifier <=> IdentifyingSpans # {})
  /\ [][/\ has_identifier => has_identifier'
        /\ (~ has_identifier /\ has_identifier') =>
             /\ cur'.key \in IdentifyingKeys
             /\ cur' \in accepted' \ accepted
        /\ (cur' \in accepted' \ accepted /\ cur'.key \in IdentifyingKeys) =>
             has_identifier']_vars

\* the sensitive scanner runs with has_identifier set by a registry number
\* alone, an e-mail address having been accepted as well
C20_Witness ==
  /\ pc = "sensitive"
  /\ has_identifier
  /\ \A c \in IdentifyingSpans : c.key = "GENERAL_REGISTRY"
  /\ \E c \in accepted : c.key = "EMAIL"

(***************************************************************************)
(* C21                                                                     *)
(***************************************************************************)
\* C21: the mask starts empty at the invocation, every step leaves it a
\* superset of what it was, and every offset in it lies in [0, len(text))
C21_MaskAppendOnlyAndInRange ==
  /\ [](pc = "call" => indices_to_mask = {})
  /\ [](indices_to_mask \subseteq 0 .. (Len(text.s) - 1))
  /\ [][indices_to_mask \subseteq indices_to_mask']_vars

\* two spans were added one after the other, the mask reaching the last
\* offset of the text
C21_Witness ==
  /\ pc \notin {"call", "done"}
  /\ Cardinality(accepted) >= 2
  /\ cur \in accepted
  /\ cur.e = Len(text.s)
  /\ (Len(text.s) - 1) \in indices_to_mask
  /\ 0 \in indices_to_mask

(***************************************************************************)
(* C23                                                                     *)
(***************************************************************************)
\* the levels from the minimum to the highest
LevelRank(level) ==
  CASE level = "MÍNIMO"  -> 0
    [] level = "BAIXO"   -> 1
    [] level = "MÉDIO"   -> 2
    [] level = "ALTO"    -> 3
    [] level = "CRÍTICO" -> 4

\* the totals of the report's run
ReportStats == batch.pii_stats

\* the categories of the claim that the detector counts
CriticalTotals == {"CPF", "CNPJ", "GENERAL_REGISTRY"} \cup SensitiveKeys
ContactTotals == {"EMAIL", "PHONE", "FULL_ADDRESS"}

\* C23: the corpus label depends on the category totals and total_records
\* only: with critical hits it is the highest level iff their total is above
\* 5% of total_records or a sensitive category is present, else the second
\* highest; without critical hits it is the middle level when a contact or
\* address total is positive, the low level when only other PII was found,
\* the minimum level when nothing was found; and one more hit of any
\* category never lowers it
C23_CorpusRiskLevel ==
  pc = "reported" =>
    LET level    == result[1].risk_level
        critical == SumOver(ReportStats, CriticalTotals)
        n        == batch.total_records
    IN  /\ level = _calculate_risk_level(ReportStats, n)
        /\ IF critical > 0
           THEN /\ level \in {"CRÍTICO", "ALTO"}
                /\ level = "CRÍTICO" <=>
                     \/ 100 * critical > 5 * n
                     \/ SensitiveKeys \cap DOMAIN ReportStats # {}
           ELSE IF ContactTotals \cap DOMAIN ReportStats # {} THEN level = "MÉDIO"
           ELSE IF DOMAIN ReportStats # {} THEN level = "BAIXO"
           ELSE level = "MÍNIMO"
        /\ \A k \in PII_TYPES \ {"CEP"} :
             n > 0 =>
               LevelRank(_calculate_risk_level(Inc(ReportStats, k), n)) >= LevelRank(level)

\* one sensitive hit among 41 records: the ratio is below 5% and the label is
\* the highest all the same
C23_Witness ==
  /\ pc = "reported"
  /\ batch.total_records = 41
  /\ DOMAIN ReportStats = {"SENSITIVE_HEALTH", "EMAIL"}
  /\ ReportStats["SENSITIVE_HEALTH"] = 1
  /\ result[1].risk_level = "CRÍTICO"

(***************************************************************************)
(* C24                                                                     *)
(***************************************************************************)
\* C24: records_with_pii of the report is the number of records with PII the
\* file processor counted, so it is at most total_records and
\* records_without_pii is never negative
C24_ReportCountsRecordsWithPii ==
  pc = "reported" =>
    /\ result[1].records_with_pii = batch.records_with_pii
    /\ result[1].records_with_pii <= batch.total_records
    /\ result[1].records_without_pii >= 0

(***************************************************************************)
(* C25                                                                     *)
(***************************************************************************)
\* the records of a sequence that have has_pii set
RecordsHavingPii(records) == {i \in 1 .. Len(records) : records[i].has_pii}

RECURSIVE SumOfCategory(_, _)
\* the sum of pii_detected[c] over the records of a sequence
SumOfCategory(records, c) ==
  IF records = <<>> THEN 0
  ELSE Get(Head(records).pii_detected, c) + SumOfCategory(Tail(records), c)

\* the result of a run is consistent with the records it emitted
ConsistentResult(out) ==
  /\ out.total_records = Len(out.records)
  /\ \A i \in 1 .. Len(out.records) :
       out.records[i].has_pii <=> DOMAIN out.records[i].pii_detected # {}
  /\ out.records_with_pii = Cardinality(RecordsHavingPii(out.records))
  /\ \A c \in PII_TYPES :
       Get(out.pii_stats, c) = SumOfCategory(out.records, c)

C26_NoCountsIffNothingMasked ==
  (pc = "done" /\ text.kind = "str") =>
    /\ DOMAIN result[2] = {} <=> indices_to_mask = {}
    /\ \A k \in DOMAIN result[2] : result[2][k] > 0
    /\ DOMAIN result[2] = {} => result[1] = text

\* a text without PII is returned as given, with no counts
C26_Witness ==
  /\ pc = "done"
  /\ text.kind = "str"
  /\ text.s # ""
  /\ DOMAIN result[2] = {}
  /\ indices_to_mask = {}
  /\ result[1] = text

(***************************************************************************)
(* C27                                                                     *)
(***************************************************************************)
\* C27: when the upload handler has returned its response, on whatever
\* path, the temporary file does not exist
C27_TempFileRemovedOnEveryPath ==
  (pc = "upload" /\ batch.step = "responded") => ~batch.temp_file

(***************************************************************************)
(* C28                                                                     *)
(***************************************************************************)
\* C28: a success response is given only when the records of the run and
\* its report were written to the database
C28_SuccessOnlyIfPersisted ==
  (pc = "upload" /\ batch.step = "responded" /\ batch.response[1].success) =>
    /\ batch.response[1].status = 200
    /\ "report" \in batch.stored
    /\ batch.returned[1].records # <<>> =>
         {"records", "access_info"} \subseteq batch.stored

(***************************************************************************)
(* C29                                                                     *)
(***************************************************************************)
\* the smallest number of pages of `limit` records that hold `total` records
PagesNeeded(total, limit) ==
  CHOOSE p \in 0 .. total :
    /\ p * limit >= total
    /\ \A q \in 0 .. total : q * limit >= total => q >= p

\* C29: for a positive limit the listing's total_pages is the smallest number
\* of pages of that size that hold all the records, and page is the whole
\* part of skip / limit, plus one
C29_PageCountIsCeiling ==
  (pc = "listed" /\ batch.limit > 0) =>
    /\ batch.response[1].total_pages = PagesNeeded(batch.total, batch.limit)
    /\ batch.response[1].page = (batch.skip \div batch.limit) + 1

(***************************************************************************)
(* C30                                                                     *)
(***************************************************************************)
\* an e-mail address: a local part, "@", a domain and a final label of
\* letters, whatever follows it in the text
EmailAddress ==
  Cat(<<WB,
        Rep(Set(UpperAZ \cup LowerAZ \cup Digits \cup {".", "_", "%", "+", "-"}), 1, Inf),
        Lit("@"),
        Rep(Set(UpperAZ \cup LowerAZ \cup Digits \cup {".", "-"}), 1, Inf),
        Lit("."),
        Rep(Set(UpperAZ \cup LowerAZ), 2, Inf),
        WB>>)

\* the addresses of the text whose own domain does not end in .gov.br
NonGovAddresses ==
  LET ms == FindIter(EmailAddress, text.s)
  IN  {<<ms[i][1], ms[i][2]>> : i \in 1 .. Len(ms)} \
        {m \in {<<ms[i][1], ms[i][2]>> : i \in 1 .. Len(ms)} :
           /\ m[2] - m[1] >= 7
           /\ Slice(text.s, m[2] - 7, m[2]) = ".gov.br"}

\* the categories accepted before the e-mail addresses are looked for
EarlierCategories == {"CPF", "PERSON_NAME", "GENERAL_REGISTRY", "CNPJ"}

\* C30: at the end of a run on a string, every address whose own domain
\* does not end in .gov.br is an accepted span counted as EMAIL, unless it
\* intersects a span accepted before it, whatever text follows it
C30_NonGovEmailAlwaysMasked ==
  (pc = "done" /\ text.kind = "str") =>
    \A m \in NonGovAddresses :
      \/ \E c \in accepted : c.key = "EMAIL" /\ c.s = m[1] /\ c.e = m[2]
      \/ \E c \in accepted :
           /\ c.key \in EarlierCategories
           /\ Range(c.s, c.e) \cap Range(m[1], m[2]) # {}

====
